---------------------------- MODULE Spec2Model ----------------------------
(***************************************************************************)
(* Trust boundary of make-it-so: the permission validators and compiler    *)
(* (src/security.rs), the plugin launcher (src/commands/run.rs) and the    *)
(* install / update flows that consume the URL validator                   *)
(* (src/commands/add.rs, src/commands/update.rs).                          *)
(*                                                                         *)
(* A Rust String is modelled as a sequence of one-character strings, so    *)
(* that starts_with, contains, trim, to_lowercase and join are computed    *)
(* character by character as the code computes them.                       *)
(***************************************************************************)
EXTENDS Integers, Sequences, FiniteSets, TLC

VARIABLES
  phase,      \* position of the permission compiler: "init", "built", "extended"
  perms,      \* the PluginPermissions value under construction
  buildIn,    \* the arguments of the last build_plugin_permissions call
  urlIn,      \* the last string handed to a URL validator
  urlPurpose, \* "none", "registry" or "dependency"
  urlOut,     \* the Result the URL validator returned
  run,        \* run_cmd / execute_plugin: inputs, position, result
  disk,       \* the set of transport-file paths that exist on disk
  procs,      \* external processes started by run_cmd: deno cache, the plugin
  add,        \* add_plugin_with_config: inputs, position, result
  upd,        \* update_plugin: inputs, position, result
  cloned,     \* registry URLs handed to shallow_clone_repo, in call order
  call,       \* the last single validator / builder / to_deno_args call
  ctx,        \* two ExecutionContext::from_parts calls: manifests and results
  launches,   \* execute_plugin calls in progress on one machine, by call
  tmpfiles    \* the transport files of the machine: who wrote each one

vars == <<phase, perms, buildIn, urlIn, urlPurpose, urlOut, run, disk, procs,
          add, upd, cloned, call, ctx, launches, tmpfiles>>

----------------------------------------------------------------------------
(* Bounds of the model *)

\* longest declared list (file_read, file_write, network, run_commands) of a
\* SecurityPermissions value
MaxDecl == 2

----------------------------------------------------------------------------
(* std::str operations, character by character *)

\* Result<String, String>
Ok(v) == [ok |-> TRUE, val |-> v, err |-> ""]

Err(m) == [ok |-> FALSE, val |-> <<>>, err |-> m]

\* str::starts_with
StartsWith(s, p) == Len(s) >= Len(p) /\ SubSeq(s, 1, Len(p)) = p

\* str::contains for a non-empty pattern
Contains(s, p) ==
  \E i \in 1..(Len(s) - Len(p) + 1) : SubSeq(s, i, i + Len(p) - 1) = p

\* char::is_whitespace on the characters the model uses
IsWhitespace(c) == c \in {" ", "\t", "\n", "\r", "\f"}

RECURSIVE TrimStart(_)
TrimStart(s) ==
  IF s # <<>> /\ IsWhitespace(Head(s)) THEN TrimStart(Tail(s)) ELSE s

RECURSIVE TrimEnd(_)
TrimEnd(s) ==
  IF s # <<>> /\ IsWhitespace(s[Len(s)])
  THEN TrimEnd(SubSeq(s, 1, Len(s) - 1))
  ELSE s

\* str::trim
Trim(s) == TrimEnd(TrimStart(s))

UpperToLower ==
  [c \in {"A","B","C","D","E","F","G","H","I","J","K","L","M",
          "N","O","P","Q","R","S","T","U","V","W","X","Y","Z"} |->
     CASE c = "A" -> "a" [] c = "B" -> "b" [] c = "C" -> "c" [] c = "D" -> "d"
       [] c = "E" -> "e" [] c = "F" -> "f" [] c = "G" -> "g" [] c = "H" -> "h"
       [] c = "I" -> "i" [] c = "J" -> "j" [] c = "K" -> "k" [] c = "L" -> "l"
       [] c = "M" -> "m" [] c = "N" -> "n" [] c = "O" -> "o" [] c = "P" -> "p"
       [] c = "Q" -> "q" [] c = "R" -> "r" [] c = "S" -> "s" [] c = "T" -> "t"
       [] c = "U" -> "u" [] c = "V" -> "v" [] c = "W" -> "w" [] c = "X" -> "x"
       [] c = "Y" -> "y" [] c = "Z" -> "z"]

LowerChar(c) == IF c \in DOMAIN UpperToLower THEN UpperToLower[c] ELSE c

\* str::to_lowercase
ToLowercase(s) == [i \in 1..Len(s) |-> LowerChar(s[i])]

\* the elements of a sequence
Range(s) == {s[i] : i \in 1..Len(s)}

\* sequences over S of length at most n
SeqsUpTo(S, n) == UNION {[1..k -> S] : k \in 0..n}

\* [T]::join(sep)
RECURSIVE Join(_, _)
Join(list, sep) ==
  IF list = <<>> THEN <<>>
  ELSE IF Len(list) = 1 THEN list[1]
  ELSE list[1] \o sep \o Join(Tail(list), sep)

\* str::split(sep) for a one-character separator
RECURSIVE Split(_, _)
Split(s, sep) ==
  IF \A i \in 1..Len(s) : s[i] # sep THEN <<s>>
  ELSE LET i == CHOOSE j \in 1..Len(s) :
                  s[j] = sep /\ \A k \in 1..(j - 1) : s[k] # sep
       IN  <<SubSeq(s, 1, i - 1)>> \o Split(SubSeq(s, i + 1, Len(s)), sep)

----------------------------------------------------------------------------
(* Denylists of the validators *)

dangerous_paths ==
  << <<"/","e","t","c","/">>,
     <<"/","r","o","o","t","/">>,
     <<"/","s","y","s","/">>,
     <<"/","p","r","o","c","/">>,
     <<"/","d","e","v","/">>,
     <<"/","t","m","p","/">>,
     <<"/","b","o","o","t","/">>,
     <<"/","u","s","r","/","b","i","n","/">>,
     <<"/","u","s","r","/","s","b","i","n","/">>,
     <<"/","b","i","n","/">>,
     <<"/","s","b","i","n","/">>,
     <<"C",":","\\","W","i","n","d","o","w","s","\\">>,
     <<"C",":","\\","P","r","o","g","r","a","m"," ","F","i","l","e","s","\\">>,
     <<"C",":","\\","U","s","e","r","s","\\">>,
     <<"C",":","\\","t","e","m","p","\\">>,
     <<"/","S","y","s","t","e","m","/">>,
     <<"/","L","i","b","r","a","r","y","/">>,
     <<"/","A","p","p","l","i","c","a","t","i","o","n","s","/">> >>

dangerous_ips ==
  << <<"0",".","0",".","0",".","0">>,
     <<":",":">>,
     <<"l","o","c","a","l","h","o","s","t">>,
     <<"1","2","7",".","0",".","0",".","1">>,
     <<":",":","1">> >>

metadata_hosts ==
  << <<"1","6","9",".","2","5","4",".","1","6","9",".","2","5","4">>,
     <<"i","n","s","t","a","n","c","e","-","d","a","t","a",".","e","c","2",".","i","n","t","e","r","n","a","l">>,
     <<"1","0","0",".","1","0","0",".","1","0","0",".","2","0","0">>,
     <<"m","e","t","a","d","a","t","a",".","g","o","o","g","l","e",".","i","n","t","e","r","n","a","l">>,
     <<"1","6","9",".","2","5","4",".","1","6","9",".","2","5","4">>,
     <<"m","e","t","a","d","a","t","a",".","a","z","u","r","e",".","c","o","m">>,
     <<"1","0","0",".","1","0","0",".","1","0","0",".","2","0","0">>,
     <<"1","6","9",".","2","5","4",".","1","6","9",".","2","5","4",".","n","i","p",".","i","o">>,
     <<"1","6","9",".","2","5","4",".","1","6","9",".","2","5","4",".","x","i","p",".","i","o">>,
     <<"m","e","t","a","d","a","t","a">>,
     <<"1","6","9","-","2","5","4","-","1","6","9","-","2","5","4",".","n","i","p",".","i","o">>,
     <<"m","e","t","a","d","a","t","a",".","l","o","c","a","l">> >>

dangerous_commands ==
  << <<"r","m">>,
     <<"d","e","l">>,
     <<"f","o","r","m","a","t">>,
     <<"f","d","i","s","k">>,
     <<"d","d">>,
     <<"m","k","f","s">>,
     <<"s","u","d","o">>,
     <<"s","u">>,
     <<"c","h","m","o","d">>,
     <<"c","h","o","w","n">>,
     <<"p","a","s","s","w","d">>,
     <<"c","u","r","l">>,
     <<"w","g","e","t">>,
     <<"n","c">>,
     <<"n","e","t","c","a","t">>,
     <<"t","e","l","n","e","t">>,
     <<"s","s","h">>,
     <<"s","c","p">>,
     <<"r","s","y","n","c">>,
     <<"f","t","p">>,
     <<"e","v","a","l">>,
     <<"e","x","e","c">> >>

----------------------------------------------------------------------------
(* Validators of PluginPermissions *)

\* a mutant of validate_file_path: traversal is looked for at the start only
validate_file_path_leading_traversal(path) ==
  IF Trim(path) = <<>> THEN Err("Empty path not allowed")
  ELSE IF StartsWith(path, <<".", ".">>) THEN Err("Path traversal not allowed")
  ELSE IF \E i \in DOMAIN dangerous_paths : StartsWith(path, dangerous_paths[i])
       THEN Err("Access to system directory not allowed")
  ELSE Ok(path)

\* a mutant of validate_file_path: the accepted path is returned trimmed
validate_file_path_trimmed(path) ==
  IF Trim(path) = <<>> THEN Err("Empty path not allowed")
  ELSE IF Contains(path, <<".", ".">>) THEN Err("Path traversal not allowed")
  ELSE IF \E i \in DOMAIN dangerous_paths : StartsWith(path, dangerous_paths[i])
       THEN Err("Access to system directory not allowed")
  ELSE Ok(Trim(path))

validate_file_path(path) ==
  IF Trim(path) = <<>> THEN Err("Empty path not allowed")
  ELSE IF Contains(path, <<".", ".">>) THEN Err("Path traversal not allowed")
  ELSE IF \E i \in DOMAIN dangerous_paths : StartsWith(path, dangerous_paths[i])
       THEN Err("Access to system directory not allowed")
  ELSE Ok(path)

\* a mutant of validate_network_domain: the host is trimmed but compared in
\* the case it was written in
validate_network_domain_case_sensitive(domain) ==
  LET normalized_domain == Trim(domain) IN
  IF normalized_domain = <<>> THEN Err("Empty domain not allowed")
  ELSE IF Contains(normalized_domain, <<"*">>)
       THEN Err("Wildcard domains not allowed")
  ELSE IF \E i \in DOMAIN dangerous_ips : normalized_domain = dangerous_ips[i]
       THEN Err("Broad network access not allowed")
  ELSE IF \E i \in DOMAIN metadata_hosts : normalized_domain = metadata_hosts[i]
       THEN Err("Cloud metadata service access not allowed")
  ELSE IF \/ StartsWith(normalized_domain, <<"1","9","2",".","1","6","8",".">>)
          \/ StartsWith(normalized_domain, <<"1","0",".">>)
          \/ StartsWith(normalized_domain, <<"1","7","2",".">>)
       THEN Err("Private network access not allowed")
  ELSE Ok(normalized_domain)

validate_network_domain(domain) ==
  LET normalized_domain == ToLowercase(Trim(domain)) IN
  IF normalized_domain = <<>> THEN Err("Empty domain not allowed")
  ELSE IF Contains(normalized_domain, <<"*">>)
       THEN Err("Wildcard domains not allowed")
  ELSE IF \E i \in DOMAIN dangerous_ips : normalized_domain = dangerous_ips[i]
       THEN Err("Broad network access not allowed")
  ELSE IF \E i \in DOMAIN metadata_hosts : normalized_domain = metadata_hosts[i]
       THEN Err("Cloud metadata service access not allowed")
  ELSE IF \/ StartsWith(normalized_domain, <<"1","9","2",".","1","6","8",".">>)
          \/ StartsWith(normalized_domain, <<"1","0",".">>)
          \/ StartsWith(normalized_domain, <<"1","7","2",".">>)
       THEN Err("Private network access not allowed")
  ELSE Ok(normalized_domain)

\* the grave accent U+0060: the lexer of TLA+ cannot read it inside a string,
\* so the character is written as this two-letter token
BACKTICK == "bq"

dangerous_chars == <<"&", "|", ";", ">", "<", BACKTICK, "$", "(", ")", "{", "}">>

\* a mutant of validate_command: a denylisted name is matched as a prefix
validate_command_prefix_match(command) ==
  IF Trim(command) = <<>> THEN Err("Empty command not allowed")
  ELSE IF Contains(command, <<" ">>) \/ Contains(command, <<"\t">>)
       THEN Err("Commands with arguments not allowed")
  ELSE IF \E i \in DOMAIN dangerous_chars : Contains(command, <<dangerous_chars[i]>>)
       THEN Err("Command contains dangerous characters")
  ELSE IF \E i \in DOMAIN dangerous_commands : StartsWith(command, dangerous_commands[i])
       THEN Err("Dangerous command not allowed")
  ELSE Ok(command)

validate_command(command) ==
  IF Trim(command) = <<>> THEN Err("Empty command not allowed")
  ELSE IF Contains(command, <<" ">>) \/ Contains(command, <<"\t">>)
       THEN Err("Commands with arguments not allowed")
  ELSE IF \E i \in DOMAIN dangerous_chars : Contains(command, <<dangerous_chars[i]>>)
       THEN Err("Command contains dangerous characters")
  ELSE IF \E i \in DOMAIN dangerous_commands : command = dangerous_commands[i]
       THEN Err("Dangerous command not allowed")
  ELSE Ok(command)

----------------------------------------------------------------------------
(* PluginPermissions *)

\* Option<T>: None is the empty sequence, Some(x) the one-element sequence
None == <<>>

Some(x) == <<x>>

MAKEITSO_DIR == <<".","m","a","k","e","i","t","s","o">>

\* a mutant of safe_defaults: the metadata directory is writable as well
safe_defaults_write_metadata(project_root) ==
  [file_read    |-> <<project_root, MAKEITSO_DIR>>,
   file_write   |-> <<project_root, MAKEITSO_DIR>>,
   env_access   |-> TRUE,
   network      |-> <<>>,
   run_commands |-> <<>>]

safe_defaults(project_root) ==
  [file_read    |-> <<project_root, MAKEITSO_DIR>>,
   file_write   |-> <<project_root>>,
   env_access   |-> TRUE,
   network      |-> <<>>,
   run_commands |-> <<>>]

\* a mutant of PushUnique: the entry is pushed without the contains test
PushAlways(list, x) == Append(list, x)

\* Vec::contains, then Vec::push
PushUnique(list, x) == IF x \in Range(list) THEN list ELSE Append(list, x)

allow_read(p, path) ==
  LET r == validate_file_path(path) IN
  IF r.ok THEN [p EXCEPT !.file_read = PushUnique(@, r.val)] ELSE p

\* a mutant of allow_write: the accepted path is pushed to file_read
allow_write_into_read(p, path) ==
  LET r == validate_file_path(path) IN
  IF r.ok THEN [p EXCEPT !.file_read = PushUnique(@, r.val)] ELSE p

allow_write(p, path) ==
  LET r == validate_file_path(path) IN
  IF r.ok THEN [p EXCEPT !.file_write = PushUnique(@, r.val)] ELSE p

allow_network(p, domain) ==
  LET r == validate_network_domain(domain) IN
  IF r.ok THEN [p EXCEPT !.network = PushUnique(@, r.val)] ELSE p

\* a mutant of allow_run: a command is added only while the list is empty
allow_run_first_only(p, command) ==
  LET r == validate_command(command) IN
  IF r.ok /\ p.run_commands = <<>> THEN [p EXCEPT !.run_commands = <<r.val>>] ELSE p

\* a mutant of allow_run: an accepted command replaces the list
allow_run_replacing(p, command) ==
  LET r == validate_command(command) IN
  IF r.ok THEN [p EXCEPT !.run_commands = <<r.val>>] ELSE p

allow_run(p, command) ==
  LET r == validate_command(command) IN
  IF r.ok THEN [p EXCEPT !.run_commands = PushUnique(@, r.val)] ELSE p

\* one "--flag=" argument is the literal prefix pre followed by the value val;
\* a literal argument has an empty val, a path argument an empty pre
Arg(pre, val) == [pre |-> pre, val |-> val]

\* a mutant of to_deno_args: the network flag is emitted for an empty list too
to_deno_args_always_net(p) ==
     (IF p.file_read # <<>>
        THEN <<Arg("--allow-read=", Join(p.file_read, <<",">>))>> ELSE <<>>)
  \o (IF p.file_write # <<>>
        THEN <<Arg("--allow-write=", Join(p.file_write, <<",">>))>> ELSE <<>>)
  \o (IF p.env_access THEN <<Arg("--allow-env", <<>>)>> ELSE <<>>)
  \o <<Arg("--allow-net=", Join(p.network, <<",">>))>>
  \o (IF p.run_commands # <<>>
        THEN <<Arg("--allow-run=", Join(p.run_commands, <<",">>))>> ELSE <<>>)

to_deno_args(p) ==
     (IF p.file_read # <<>>
        THEN <<Arg("--allow-read=", Join(p.file_read, <<",">>))>> ELSE <<>>)
  \o (IF p.file_write # <<>>
        THEN <<Arg("--allow-write=", Join(p.file_write, <<",">>))>> ELSE <<>>)
  \o (IF p.env_access THEN <<Arg("--allow-env", <<>>)>> ELSE <<>>)
  \o (IF p.network # <<>>
        THEN <<Arg("--allow-net=", Join(p.network, <<",">>))>> ELSE <<>>)
  \o (IF p.run_commands # <<>>
        THEN <<Arg("--allow-run=", Join(p.run_commands, <<",">>))>> ELSE <<>>)

\* a mutant of apply_env_access: an absent env_access resets the flag to the
\* default instead of leaving the inherited value
apply_env_access_reset(p, env_access) ==
  [p EXCEPT !.env_access = IF env_access # None THEN env_access[1] ELSE TRUE]

\* if let Some(env_access) = config_perms.env_access { ... }
apply_env_access(p, env_access) ==
  IF env_access # None THEN [p EXCEPT !.env_access = env_access[1]] ELSE p

\* the four loops and the env_access override, in the order of the code
apply_security_permissions(permissions, config_perms) ==
  LET reads[i \in 0..Len(config_perms.file_read)] ==
        IF i = 0 THEN permissions
        ELSE allow_read(reads[i - 1], config_perms.file_read[i])
      p1 == reads[Len(config_perms.file_read)]
      writes[i \in 0..Len(config_perms.file_write)] ==
        IF i = 0 THEN p1
        ELSE allow_write(writes[i - 1], config_perms.file_write[i])
      p2 == writes[Len(config_perms.file_write)]
      p3 == apply_env_access(p2, config_perms.env_access)
      nets[i \in 0..Len(config_perms.network)] ==
        IF i = 0 THEN p3
        ELSE allow_network(nets[i - 1], config_perms.network[i])
      p4 == nets[Len(config_perms.network)]
      runs[i \in 0..Len(config_perms.run_commands)] ==
        IF i = 0 THEN p4
        ELSE allow_run(runs[i - 1], config_perms.run_commands[i])
  IN  runs[Len(config_perms.run_commands)]

\* HashMap::get on the manifest's commands
GetCommand(plugin_manifest, command_name) ==
  IF command_name \in DOMAIN plugin_manifest.commands
  THEN Some(plugin_manifest.commands[command_name])
  ELSE None

\* the permissions of every command named in names are applied, one after
\* the other
RECURSIVE ApplyCommands(_, _, _)
ApplyCommands(p, commands, names) ==
  IF names = {} THEN p
  ELSE LET n == CHOOSE x \in names : TRUE
           q == IF commands[n].permissions # None
                THEN apply_security_permissions(p, commands[n].permissions[1])
                ELSE p
       IN  ApplyCommands(q, commands, names \ {n})

\* a mutant of build_plugin_permissions: the permissions of all commands of
\* the manifest are applied, not only those of the invoked command
build_plugin_permissions_all_commands(project_root, plugin_manifest, command_name) ==
  LET p0 == safe_defaults(project_root)
      p1 == IF plugin_manifest.permissions # None
            THEN apply_security_permissions(p0, plugin_manifest.permissions[1])
            ELSE p0
  IN  ApplyCommands(p1, plugin_manifest.commands, DOMAIN plugin_manifest.commands)

build_plugin_permissions(project_root, plugin_manifest, command_name) ==
  LET p0 == safe_defaults(project_root)
      p1 == IF plugin_manifest.permissions # None
            THEN apply_security_permissions(p0, plugin_manifest.permissions[1])
            ELSE p0
      command == GetCommand(plugin_manifest, command_name)
  IN  IF command # None /\ command[1].permissions # None
      THEN apply_security_permissions(p1, command[1].permissions[1])
      ELSE p1
----------------------------------------------------------------------------
(* Inputs of the permission compiler *)

\* std::env::current_dir(): a project outside and one inside a denylisted tree
ProjectRoots == { <<"/","w">>, <<"/","t","m","p","/","w">> }

\* declared paths: accepted, rejected (system directory), rejected (traversal),
\* and one that repeats a default
DeclPaths ==
  { <<"s","r","c">>, <<"/","e","t","c","/","x">>, MAKEITSO_DIR }

\* declared hosts: accepted, a case/whitespace variant of it, rejected
DeclHosts ==
  { <<"a",".","i","o">>, <<" ","A",".","I","O">>,
    <<"l","o","c","a","l","h","o","s","t">> }

\* declared commands: two accepted, one rejected
DeclCommands == { <<"g","i","t">>, <<"n","p","m">>, <<"r","m">> }

OptBool == {None, Some(TRUE), Some(FALSE)}

SecurityPermissions(fr, fw, env, net, rc) ==
  [file_read |-> fr, file_write |-> fw, env_access |-> env,
   network |-> net, run_commands |-> rc]

\* SecurityPermissions::default()
NoDeclaration == SecurityPermissions(<<>>, <<>>, None, <<>>, <<>>)

\* the declarations the compiler is run on: each list alone up to MaxDecl
\* entries, env_access alone, and the declarations of the repository's own
\* test test_command_level_permissions_extend_plugin with all lists at once,
\* and one that grants the project directory /tmp/w by name
Declarations ==
  {SecurityPermissions(l, <<>>, None, <<>>, <<>>) : l \in SeqsUpTo(DeclPaths, MaxDecl)}
  \cup {SecurityPermissions(<<>>, l, None, <<>>, <<>>) : l \in SeqsUpTo(DeclPaths, MaxDecl)}
  \cup {SecurityPermissions(<<>>, <<>>, None, l, <<>>) : l \in SeqsUpTo(DeclHosts, MaxDecl)}
  \cup {SecurityPermissions(<<>>, <<>>, None, <<>>, l) : l \in SeqsUpTo(DeclCommands, MaxDecl)}
  \cup {SecurityPermissions(<<>>, <<>>, e, <<>>, <<>>) : e \in OptBool}
  \cup {SecurityPermissions(<<<<"s","r","c">>>>, <<<<"s","r","c">>>>, Some(FALSE),
                            <<<<"a",".","i","o">>>>, <<<<"g","i","t">>>>),
        SecurityPermissions(<<<<"/","e","t","c","/","x">>>>, <<MAKEITSO_DIR>>, Some(TRUE),
                            <<<<"l","o","c","a","l","h","o","s","t">>>>, <<<<"r","m">>>>),
        \* a plugin that declares its own project directory
        SecurityPermissions(<<<<"/","t","m","p","/","w">>>>, <<>>, None, <<>>, <<>>),
        \* entries that hold the separator of the launch flags
        SecurityPermissions(<<<<"s","r","c",",","/","e","t","c","/","x">>>>, <<>>, None,
                            <<<<"a",".","i","o",",","l","o","c","a","l","h","o","s","t">>>>,
                            <<<<"g","i","t",",","r","m">>>>)}

OptDeclarations == {None} \cup {Some(d) : d \in Declarations}

\* PluginCommand, reduced to the field the compiler reads
PluginCommand(perms_opt) == [permissions |-> perms_opt]

\* a sibling command of the invoked one, with grants of its own
SiblingCommand ==
  PluginCommand(Some(SecurityPermissions(<<<<"l","i","b">>>>, <<<<"o","u","t">>>>,
                       Some(FALSE), <<<<"b",".","i","o">>>>, <<<<"t","s","c">>>>)))

\* PluginManifest, reduced to permissions and commands
Manifests ==
  {[permissions |-> pp, commands |-> [c \in {"deploy"} |-> PluginCommand(cp)]] :
      pp \in OptDeclarations, cp \in OptDeclarations}
  \cup
  {[permissions |-> pp,
    commands |-> [c \in {"deploy", "test"} |->
                    IF c = "deploy" THEN PluginCommand(cp) ELSE SiblingCommand]] :
      pp \in OptDeclarations, cp \in OptDeclarations}

\* the command named on the command line: declared, or not in the manifest
CommandNames == {"deploy", "missing"}

NoBuild == [project_root |-> <<>>, plugin_manifest |-> None, command_name |-> ""]

NoPerms == safe_defaults(<<>>)

----------------------------------------------------------------------------
(* The permission compiler and the builder calls that may follow it *)

permVars == <<phase, perms, buildIn>>

notPermVars == <<urlIn, urlPurpose, urlOut, run, disk, procs, add, upd, cloned,
  call, ctx, launches, tmpfiles>>

BuildPluginPermissions ==
  /\ phase = "init"
  /\ \E project_root \in ProjectRoots, plugin_manifest \in Manifests,
        command_name \in CommandNames :
       /\ perms' = build_plugin_permissions(project_root, plugin_manifest, command_name)
       /\ buildIn' = [project_root |-> project_root,
                      plugin_manifest |-> Some(plugin_manifest),
                      command_name |-> command_name]
  /\ phase' = "built"
  /\ UNCHANGED notPermVars

\* a builder call on a compiled policy; the inputs of the compilation are
\* no longer looked at once the policy has been extended
AllowRead ==
  /\ phase \in {"built", "extended"}
  /\ \E path \in DeclPaths \cup ProjectRoots : perms' = allow_read(perms, path)
  /\ phase' = "extended"
  /\ buildIn' = NoBuild
  /\ UNCHANGED notPermVars

AllowWrite ==
  /\ phase \in {"built", "extended"}
  /\ \E path \in DeclPaths \cup ProjectRoots : perms' = allow_write(perms, path)
  /\ phase' = "extended"
  /\ buildIn' = NoBuild
  /\ UNCHANGED notPermVars

AllowNetwork ==
  /\ phase \in {"built", "extended"}
  /\ \E domain \in DeclHosts : perms' = allow_network(perms, domain)
  /\ phase' = "extended"
  /\ buildIn' = NoBuild
  /\ UNCHANGED notPermVars

AllowRun ==
  /\ phase \in {"built", "extended"}
  /\ \E command \in DeclCommands : perms' = allow_run(perms, command)
  /\ phase' = "extended"
  /\ buildIn' = NoBuild
  /\ UNCHANGED notPermVars
----------------------------------------------------------------------------
(* url::Url::parse, as far as the validators read its result: the scheme    *)
(* and host_str() of the WHATWG URL parser the url crate implements         *)

Digits == {"0", "1", "2", "3", "4", "5", "6", "7", "8", "9"}

DigitVal ==
  [c \in Digits |->
     CASE c = "0" -> 0 [] c = "1" -> 1 [] c = "2" -> 2 [] c = "3" -> 3
       [] c = "4" -> 4 [] c = "5" -> 5 [] c = "6" -> 6 [] c = "7" -> 7
       [] c = "8" -> 8 [] c = "9" -> 9]

IsDigit(c) == c \in Digits

IsAlpha(c) ==
  c \in DOMAIN UpperToLower \/ c \in {UpperToLower[u] : u \in DOMAIN UpperToLower}

\* the value of a non-empty string of decimal digits
RECURSIVE ParseDecimal(_)
ParseDecimal(s) ==
  IF Len(s) = 1 THEN DigitVal[s[1]]
  ELSE 10 * ParseDecimal(SubSeq(s, 1, Len(s) - 1)) + DigitVal[s[Len(s)]]

\* str::find for a set of characters: the first index, or 0
FirstIndexIn(s, set) ==
  IF \E i \in 1..Len(s) : s[i] \in set
  THEN CHOOSE i \in 1..Len(s) : s[i] \in set /\ \A k \in 1..(i - 1) : s[k] \notin set
  ELSE 0

\* str::rfind for one character: the last index, or 0
LastIndexOf(s, c) ==
  IF \E i \in 1..Len(s) : s[i] = c
  THEN CHOOSE i \in 1..Len(s) : s[i] = c /\ \A k \in (i + 1)..Len(s) : s[k] # c
  ELSE 0

S_https == <<"h","t","t","p","s">>

S_http == <<"h","t","t","p">>

S_ssh == <<"s","s","h">>

S_git == <<"g","i","t">>

S_file == <<"f","i","l","e">>

S_javascript == <<"j","a","v","a","s","c","r","i","p","t">>

S_data == <<"d","a","t","a">>

S_ftp == <<"f","t","p">>

S_mailto == <<"m","a","i","l","t","o">>

S_ws == <<"w","s">>

S_wss == <<"w","s","s">>

\* the schemes the URL standard calls special
SpecialSchemes == {S_http, S_https, S_ws, S_wss, S_ftp, S_file}

\* the forbidden host code points among the characters the model uses
ForbiddenHostChars ==
  {" ", "#", "/", ":", "<", ">", "?", "@", "[", "\\", "]", "^", "|", "\t", "\n", "\r"}

ParseErr == [ok |-> FALSE, scheme |-> <<>>, host |-> <<>>]

Parsed(scheme, host) == [ok |-> TRUE, scheme |-> scheme, host |-> host]

\* the scheme state: an ASCII letter, then letters, digits, + - . up to the
\* first colon; the scheme is lower-cased
UrlSchemeEnd(s) ==
  LET colon == FirstIndexIn(s, {":"}) IN
  IF /\ colon > 1
     /\ IsAlpha(s[1])
     /\ \A i \in 2..(colon - 1) : IsAlpha(s[i]) \/ IsDigit(s[i]) \/ s[i] \in {"+", "-", "."}
  THEN colon
  ELSE 0

RECURSIVE SkipSlashes(_)
SkipSlashes(s) ==
  IF s # <<>> /\ Head(s) \in {"/", "\\"} THEN SkipSlashes(Tail(s)) ELSE s

\* the text of s before the first character of set
UpTo(s, set) ==
  LET i == FirstIndexIn(s, set) IN IF i = 0 THEN s ELSE SubSeq(s, 1, i - 1)

\* a port: empty, or decimal digits of a value that fits 16 bits
PortOk(port) ==
  \/ port = <<>>
  \/ /\ \A i \in 1..Len(port) : IsDigit(port[i])
     /\ Len(port) <= 5
     /\ ParseDecimal(port) <= 65535

\* the authority state and the host parser: the userinfo ends at the last @,
\* the host ends at the first colon outside brackets; a special scheme has a
\* non-empty domain that is lower-cased, any other scheme an opaque host that
\* keeps its letter case.  A host that ends in a number is serialized as a
\* dotted quad: the identity on the dotted quads of UrlHosts below; a
\* bracketed IPv6 literal is kept as written.
ParseAuthority(scheme, authority) ==
  LET at       == LastIndexOf(authority, "@")
      hostport == SubSeq(authority, at + 1, Len(authority))
      bracket  == hostport # <<>> /\ Head(hostport) = "["
      close    == FirstIndexIn(hostport, {"]"})
      colon    == FirstIndexIn(hostport, {":"})
      rawhost  == IF bracket THEN SubSeq(hostport, 1, close)
                  ELSE IF colon = 0 THEN hostport
                  ELSE SubSeq(hostport, 1, colon - 1)
      after    == SubSeq(hostport, Len(rawhost) + 1, Len(hostport))
      port     == IF after = <<>> THEN <<>> ELSE Tail(after)
      special  == scheme \in SpecialSchemes
  IN  IF bracket /\ close = 0 THEN ParseErr
      ELSE IF after # <<>> /\ Head(after) # ":" THEN ParseErr
      ELSE IF ~PortOk(port) THEN ParseErr
      ELSE IF special /\ rawhost = <<>> /\ scheme # S_file THEN ParseErr
      ELSE IF ~bracket /\ \E i \in 1..Len(rawhost) : rawhost[i] \in ForbiddenHostChars
           THEN ParseErr
      ELSE Parsed(scheme, IF special \/ bracket THEN ToLowercase(rawhost) ELSE rawhost)

\* Url::parse(input), then scheme() and host_str().unwrap_or("")
UrlParse(input) ==
  LET NotTabOrNewline(c) == c \notin {"\t", "\n", "\r"}
      s      == SelectSeq(input, NotTabOrNewline)
      colon  == UrlSchemeEnd(s)
      scheme == ToLowercase(SubSeq(s, 1, colon - 1))
      rest   == SubSeq(s, colon + 1, Len(s))
  IN  IF colon = 0 THEN ParseErr
      ELSE IF scheme = S_file
        THEN IF StartsWith(rest, <<"/", "/">>)
             THEN ParseAuthority(scheme, UpTo(SubSeq(rest, 3, Len(rest)), {"/", "\\", "?", "#"}))
             ELSE Parsed(scheme, <<>>)
      ELSE IF scheme \in SpecialSchemes
        THEN ParseAuthority(scheme, UpTo(SkipSlashes(rest), {"/", "\\", "?", "#"}))
      ELSE IF StartsWith(rest, <<"/", "/">>)
        THEN ParseAuthority(scheme, UpTo(SubSeq(rest, 3, Len(rest)), {"/", "?", "#"}))
      ELSE Parsed(scheme, <<>>)

----------------------------------------------------------------------------
(* URL validators *)

\* str::parse::<u8>: an optional +, then decimal digits of a value up to 255
ParseU8(s) ==
  LET digits == IF s # <<>> /\ Head(s) = "+" THEN Tail(s) ELSE s IN
  IF /\ digits # <<>>
     /\ \A i \in 1..Len(digits) : IsDigit(digits[i])
     /\ ParseDecimal(digits) <= 255
  THEN Some(ParseDecimal(digits))
  ELSE None

is_private_ip(host) ==
  IF StartsWith(host, <<"1","9","2",".","1","6","8",".">>) THEN TRUE
  ELSE IF StartsWith(host, <<"1","0",".">>) THEN TRUE
  ELSE IF StartsWith(host, <<"1","7","2",".">>)
    THEN LET parts == Split(host, ".")
             second_octet == IF Len(parts) >= 2 THEN ParseU8(parts[2]) ELSE None
         IN  second_octet # None /\ second_octet[1] \in 16..31
  ELSE FALSE

validate_host_for_external_access(host) ==
  IF host = <<>> THEN Err("Empty host not allowed")
  ELSE IF \/ host = <<"l","o","c","a","l","h","o","s","t">>
          \/ host = <<"1","2","7",".","0",".","0",".","1">>
          \/ host = <<":",":","1">>
          \/ StartsWith(host, <<"[",":",":","1","]">>)
       THEN Err("localhost/loopback access not allowed")
  ELSE IF \/ host = <<"1","6","9",".","2","5","4",".","1","6","9",".","2","5","4">>
          \/ host = <<"1","0","0",".","1","0","0",".","1","0","0",".","2","0","0">>
       THEN Err("Cloud metadata service access not allowed")
  ELSE IF is_private_ip(host) THEN Err("Private network access not allowed")
  ELSE Ok(<<>>)

\* a mutant of is_trusted_git_domain: one host is trusted with plain HTTP
is_trusted_git_domain_github(host) ==
  host = <<"g","i","t","h","u","b",".","c","o","m">>

is_trusted_git_domain(host) == FALSE

validate_url_for_git_operations(url) ==
  IF Trim(url) = <<>> THEN Err("Empty URL not allowed")
  ELSE
    LET url_trimmed == Trim(url)
        parsed_url  == UrlParse(url_trimmed)
        scheme      == parsed_url.scheme
        host        == parsed_url.host
    IN  IF StartsWith(url_trimmed, <<"g","i","t","@">>) THEN Ok(url_trimmed)
        ELSE IF Contains(url_trimmed, <<":",":","1">>)
          THEN Err("localhost/loopback access not allowed")
        ELSE IF ~parsed_url.ok THEN Err("Invalid URL format")
        ELSE IF scheme = S_file THEN Err("file:// URLs not allowed")
        ELSE IF scheme \in {S_javascript, S_data, S_ftp} THEN Err("Dangerous scheme")
        ELSE IF ~validate_host_for_external_access(host).ok
          THEN validate_host_for_external_access(host)
        ELSE IF scheme = S_http
          THEN IF ~is_trusted_git_domain(host)
               THEN Err("HTTPS required for remote repositories")
               ELSE Ok(url_trimmed)
        ELSE IF scheme \in {S_https, S_ssh, S_git} THEN Ok(url_trimmed)
        ELSE Err("Unsupported scheme")

validate_registry_url(url) == validate_url_for_git_operations(url)

validate_url_for_dependencies(url) ==
  IF Trim(url) = <<>> THEN Err("Empty dependency URL not allowed")
  ELSE
    LET url_trimmed == Trim(url)
        parsed_url  == UrlParse(url_trimmed)
        scheme      == parsed_url.scheme
        host        == parsed_url.host
    IN  IF \/ StartsWith(url_trimmed, <<".",".","/">>)
           \/ Contains(url_trimmed, <<"/",".",".","/">>)
          THEN Err("Relative path injection not allowed")
        ELSE IF Contains(url_trimmed, <<":",":","1">>)
          THEN Err("localhost/loopback access not allowed")
        ELSE IF ~parsed_url.ok THEN Err("Invalid dependency URL format")
        ELSE IF scheme = S_file THEN Err("file:// scheme not allowed")
        ELSE IF scheme \in {S_javascript, S_data, S_ftp, S_mailto}
          THEN Err("Dangerous scheme")
        ELSE IF ~validate_host_for_external_access(host).ok
          THEN validate_host_for_external_access(host)
        ELSE IF scheme = S_http THEN Err("HTTPS required for remote dependencies")
        ELSE IF scheme = S_https THEN Ok(url_trimmed)
        ELSE Err("Unsupported scheme")

validate_deno_dependency_url(url) == validate_url_for_dependencies(url)
----------------------------------------------------------------------------
(* Inputs of the URL validators *)

\* schemes as written in a URL
UrlSchemes ==
  {S_https, <<"H","T","T","P","S">>, S_http, <<"H","T","T","P">>, S_ssh, S_git,
   S_file, S_javascript, S_data, S_ftp, S_mailto, S_ws}

H_github == <<"g","i","t","h","u","b",".","c","o","m">>

\* hosts as written in a URL: one public host, and hosts of every class that
\* validate_network_domain rejects
UrlHosts ==
  {H_github,
   <<"l","o","c","a","l","h","o","s","t">>,
   <<"L","O","C","A","L","H","O","S","T">>,
   <<"1","2","7",".","0",".","0",".","1">>,
   <<"0",".","0",".","0",".","0">>,
   <<"1","6","9",".","2","5","4",".","1","6","9",".","2","5","4">>,
   <<"m","e","t","a","d","a","t","a",".","g","o","o","g","l","e",".","i","n","t","e","r","n","a","l">>,
   <<"1","6","9",".","2","5","4",".","1","6","9",".","2","5","4",".","n","i","p",".","i","o">>,
   <<"1","9","2",".","1","6","8",".","1",".","1">>,
   <<"1","0",".","0",".","0",".","1">>,
   <<"1","7","2",".","1","6",".","0",".","1">>,
   <<"1","7","2",".","3","2",".","0",".","1">>,
   <<"[",":",":","1","]">>}

UrlForms == {"plain", "port", "userinfo", "padded", "opaque", "traversal"}

\* a URL text with the given scheme and host
MakeUrl(scheme, host, form) ==
  CASE form = "plain"     -> scheme \o <<":","/","/">> \o host \o <<"/","r">>
    [] form = "port"      -> scheme \o <<":","/","/">> \o host \o <<":","8","0","8","0","/","r">>
    [] form = "userinfo"  -> scheme \o <<":","/","/","g","i","t","@">> \o host \o <<"/","r">>
    [] form = "padded"    -> <<" ">> \o scheme \o <<":","/","/">> \o host \o <<"/","r","\n">>
    [] form = "opaque"    -> scheme \o <<":">> \o host
    [] form = "traversal" -> scheme \o <<":","/","/">> \o host \o <<"/","a","/",".",".","/","r">>

\* the SSH shorthand git@host:path, the empty and the blank string, a path
OtherUrls ==
  {<<"g","i","t","@">> \o h \o <<":","u","/","r">> : h \in UrlHosts}
  \cup {<<>>, <<" ">>, <<"/","r">>, <<".",".","/","r">>}

Urls ==
  {MakeUrl(s, h, f) : s \in UrlSchemes, h \in UrlHosts, f \in UrlForms} \cup OtherUrls

----------------------------------------------------------------------------
(* Calls of the URL validators *)

urlVars == <<urlIn, urlPurpose, urlOut>>

notUrlVars == <<phase, perms, buildIn, run, disk, procs, add, upd, cloned,
  call, ctx, launches, tmpfiles>>

ValidateRegistryUrl ==
  /\ urlPurpose = "none"
  /\ UNCHANGED notUrlVars
  /\ \E url \in Urls :
       /\ urlIn' = url
       /\ urlPurpose' = "registry"
       /\ urlOut' = validate_registry_url(url)

ValidateDenoDependencyUrl ==
  /\ urlPurpose = "none"
  /\ UNCHANGED notUrlVars
  /\ \E url \in Urls :
       /\ urlIn' = url
       /\ urlPurpose' = "dependency"
       /\ urlOut' = validate_deno_dependency_url(url)
----------------------------------------------------------------------------
(* run_cmd and execute_plugin *)

\* at most this many entries in the manifest's deno_dependencies
MaxDeps == 2

\* u32 to decimal text, as format!("{}", std::process::id()) writes it
RECURSIVE FormatDecimal(_)
FormatDecimal(n) ==
  LET d == CHOOSE c \in Digits : DigitVal[c] = n % 10 IN
  IF n < 10 THEN <<d>> ELSE FormatDecimal(n \div 10) \o <<d>>

\* PathBuf::join on a Unix path: an absolute component replaces the base, and
\* a separator is added unless the base already ends with one
PathJoin(base, component) ==
  IF component # <<>> /\ Head(component) = "/" THEN component
  ELSE IF base = <<>> \/ base[Len(base)] = "/" THEN base \o component
  ELSE base \o <<"/">> \o component

\* a mutant of ContextFile: the name does not hold the process id
ContextFileFixedName(temp_dir, pid) ==
  PathJoin(temp_dir, <<"m","i","s","-","c","o","n","t","e","x","t",".","j","s","o","n">>)

\* temp_dir.join(format!("mis-context-{}.json", std::process::id()))
ContextFile(temp_dir, pid) ==
  PathJoin(temp_dir,
           <<"m","i","s","-","c","o","n","t","e","x","t","-">>
             \o FormatDecimal(pid) \o <<".","j","s","o","n">>)

\* std::env::temp_dir(): the default of Linux, and a directory outside the
\* path validator's denylist
TempDirs == { <<"/","t","m","p">>, <<"/","v","a","r","/","T","/">> }

\* std::process::id()
Pids == {7, 4123}

\* the plugin directory and the script of the invoked command
PluginDir == <<"/","w","/",".","m","a","k","e","i","t","s","o","/","p","l","u","g","i","n","s","/","p">>

ScriptFileName == <<"m",".","t","s">>

D_ok == <<"h","t","t","p","s",":","/","/","d","e","n","o",".","l","a","n","d","/","x","/","m",".","t","s">>

D_http == <<"h","t","t","p",":","/","/","d","e","n","o",".","l","a","n","d","/","x","/","m",".","t","s">>

D_local == <<"h","t","t","p","s",":","/","/","l","o","c","a","l","h","o","s","t","/","m",".","t","s">>

D_esm == <<"h","t","t","p","s",":","/","/","e","s","m",".","s","h","/","r">>

\* URLs a manifest may list under [deno_dependencies]
DepUrls == {D_ok, D_esm, D_http, D_local}

DepSets == {s \in SUBSET DepUrls : Cardinality(s) <= MaxDeps}

\* manifests run_cmd is started on: no declaration, a plugin-level one, and
\* a plugin-level one extended by the invoked command
RunManifests ==
  {[permissions |-> pp, commands |-> [c \in {"deploy"} |-> PluginCommand(cp)]] :
     pp \in {None, Some(SecurityPermissions(<<<<"s","r","c">>>>, <<>>, None,
                                            <<<<"a",".","i","o">>>>, <<>>))},
     cp \in {None, Some(SecurityPermissions(<<>>, <<>>, Some(FALSE), <<>>,
                                            <<<<"g","i","t">>>>))}}

RunIdle ==
  [pc |-> "idle", manifest |-> None, command_name |-> "", deps |-> {},
   remaining |-> {}, validated |-> {}, project_root |-> <<>>, temp_dir |-> <<>>,
   pid |-> 0, context_file |-> <<>>, guard |-> FALSE, args |-> <<>>,
   child |-> "none", status |-> 0, removeFailed |-> FALSE, result |-> "none"]

runVars == <<run, disk, procs>>

notRunVars == <<phase, perms, buildIn, urlIn, urlPurpose, urlOut, add, upd, cloned,
  call, ctx, launches, tmpfiles>>

\* return Err(e) from run_cmd or execute_plugin
RunReturn(r, e) == [r EXCEPT !.pc = "done", !.result = e]

\* run_cmd up to the dependency check: the command is looked up in the manifest
RunCmd ==
  /\ run.pc = "idle"
  /\ \E manifest \in RunManifests, command_name \in CommandNames, deps \in DepSets,
        project_root \in ProjectRoots, temp_dir \in TempDirs, pid \in Pids :
       LET r == [run EXCEPT !.manifest = Some(manifest), !.command_name = command_name,
                            !.deps = deps, !.remaining = deps,
                            !.project_root = project_root, !.temp_dir = temp_dir,
                            !.pid = pid]
       IN  run' = IF GetCommand(manifest, command_name) = None
                  THEN RunReturn(r, "Command not found")
                  ELSE [r EXCEPT !.pc = "validate"]
  /\ UNCHANGED <<disk, procs>>
  /\ UNCHANGED notRunVars

\* a mutant of run_cmd_dep_check: a rejected dependency URL is only reported
run_cmd_dep_check_warn_only(dep_url) == Ok(dep_url)

\* the body of the loop over deno_dependencies in run_cmd
run_cmd_dep_check(dep_url) == validate_deno_dependency_url(dep_url)

\* one iteration of the loop over the HashMap, whose order is unspecified
ValidateDependency ==
  /\ run.pc = "validate"
  /\ run.remaining # {}
  /\ \E dep_url \in run.remaining :
       run' = IF ~run_cmd_dep_check(dep_url).ok
              THEN RunReturn(run, "Security validation failed for dependency")
              ELSE [run EXCEPT !.remaining = @ \ {dep_url},
                               !.validated = @ \cup {dep_url}]
  /\ UNCHANGED <<disk, procs>>
  /\ UNCHANGED notRunVars

\* the loop is over: run_cmd builds the context and calls execute_plugin
\* (load_mis_config or ExecutionContext::from_parts may fail first)
EnterExecutePlugin ==
  /\ run.pc = "validate"
  /\ run.remaining = {}
  /\ \E outcome \in {"ok", "Failed to build context"} :
       run' = IF outcome = "ok" THEN [run EXCEPT !.pc = "cache"]
              ELSE RunReturn(run, outcome)
  /\ UNCHANGED <<disk, procs>>
  /\ UNCHANGED notRunVars

\* cache_deno_dependencies: deno cache <urls>, unless there are none
CacheDenoDependencies ==
  /\ run.pc = "cache"
  /\ \/ /\ run.deps = {}
        /\ run' = [run EXCEPT !.pc = "script"]
        /\ procs' = procs
     \/ /\ run.deps # {}
        /\ run' = RunReturn(run, "Failed to run deno cache")
        /\ procs' = procs
     \/ /\ run.deps # {}
        /\ procs' = Append(procs, [cmd |-> "deno cache", urls |-> run.deps])
        /\ \E success \in BOOLEAN :
             run' = IF success THEN [run EXCEPT !.pc = "script"]
                    ELSE RunReturn(run, "Deno cache failed")
  /\ UNCHANGED disk
  /\ UNCHANGED notRunVars

\* the context is serialized and the script file is looked up
CheckScript ==
  /\ run.pc = "script"
  /\ \E outcome \in {"ok", "Failed to serialize context", "Plugin script not found"} :
       run' = IF outcome = "ok" THEN [run EXCEPT !.pc = "write"]
              ELSE RunReturn(run, outcome)
  /\ UNCHANGED <<disk, procs>>
  /\ UNCHANGED notRunVars

\* a mutant of WriteContextFile: the guard is made and the call goes on, the
\* file is not written
WriteContextFileSkipped ==
  /\ run.pc = "write"
  /\ run' = [run EXCEPT !.context_file = ContextFile(run.temp_dir, run.pid),
                        !.pc = "cwd", !.guard = TRUE]
  /\ disk' = disk
  /\ UNCHANGED procs
  /\ UNCHANGED notRunVars

\* std::fs::write(&context_file, json)?, then ContextFileCleanup::new.
\* fs::write creates (or truncates) the file and then writes: it may fail
\* before the file exists, or after it was created.
WriteContextFile ==
  /\ run.pc = "write"
  /\ LET context_file == ContextFile(run.temp_dir, run.pid)
         r == [run EXCEPT !.context_file = context_file]
     IN  \/ /\ disk' = disk \cup {context_file}
            /\ run' = [r EXCEPT !.pc = "cwd", !.guard = TRUE]
         \/ /\ disk' = disk
            /\ run' = RunReturn(r, "Failed to write context to temporary file")
         \/ /\ disk' = disk \cup {context_file}
            /\ run' = RunReturn(r, "Failed to write context to temporary file")
  /\ UNCHANGED procs
  /\ UNCHANGED notRunVars

\* a mutant of DropOutcomes: a failure of remove_file becomes the result
DropOutcomesEscalating(r, d) ==
  IF r.guard /\ r.context_file \in d
  THEN {[run |-> [r EXCEPT !.guard = FALSE], disk |-> d \ {r.context_file}],
        [run |-> [r EXCEPT !.guard = FALSE, !.removeFailed = TRUE,
                           !.result = "Failed to cleanup context file"],
         disk |-> d]}
  ELSE {[run |-> [r EXCEPT !.guard = FALSE], disk |-> d]}

\* ContextFileCleanup::drop: the file, if it exists, is removed; a failure of
\* remove_file is only reported
DropOutcomes(r, d) ==
  IF r.guard /\ r.context_file \in d
  THEN {[run |-> [r EXCEPT !.guard = FALSE], disk |-> d \ {r.context_file}],
        [run |-> [r EXCEPT !.guard = FALSE, !.removeFailed = TRUE], disk |-> d]}
  ELSE {[run |-> [r EXCEPT !.guard = FALSE], disk |-> d]}

\* std::env::current_dir()? in execute_plugin, with the guard alive
CurrentDir ==
  /\ run.pc = "cwd"
  /\ \/ /\ run' = [run EXCEPT !.pc = "spawn"]
        /\ disk' = disk
     \/ \E o \in DropOutcomes(RunReturn(run, "current_dir failed"), disk) :
          /\ run' = o.run
          /\ disk' = o.disk
  /\ UNCHANGED procs
  /\ UNCHANGED notRunVars

\* the argument vector handed to deno
deno_args(r) ==
  LET permissions ==
        allow_read(build_plugin_permissions(r.project_root, r.manifest[1], r.command_name),
                   r.context_file)
  IN  <<Arg("run", <<>>)>>
      \o to_deno_args(permissions)
      \o <<Arg("", PathJoin(PluginDir, ScriptFileName)),
           Arg("--context-file", <<>>),
           Arg("", r.context_file)>>

\* the permissions are compiled, the arguments built and the plugin spawned
SpawnPlugin ==
  /\ run.pc = "spawn"
  /\ \/ /\ run' = [run EXCEPT !.pc = "wait", !.args = deno_args(run), !.child = "running"]
        /\ procs' = Append(procs, [cmd |-> "deno run", urls |-> {}])
        /\ disk' = disk
     \/ /\ \E o \in DropOutcomes(RunReturn([run EXCEPT !.args = deno_args(run)],
                                           "Failed to run plugin script"), disk) :
             /\ run' = o.run
             /\ disk' = o.disk
        /\ procs' = procs
  /\ UNCHANGED notRunVars

ExitCodes == {0, 1, 2}

\* child.wait()?: the call blocks until the plugin exits with a status, or
\* wait itself fails. The standard library repeats an interrupted wait, so
\* wait fails only when there is no child left to wait for (it was reaped
\* elsewhere): the plugin is gone and its status is not known.
WaitChild ==
  /\ run.pc = "wait"
  /\ \/ \E code \in ExitCodes :
          /\ run' = [run EXCEPT !.pc = "finish", !.child = "exited", !.status = code]
          /\ disk' = disk
     \/ \E o \in DropOutcomes(RunReturn([run EXCEPT !.child = "gone"], "wait failed"), disk) :
          /\ run' = o.run
          /\ disk' = o.disk
  /\ UNCHANGED procs
  /\ UNCHANGED notRunVars

\* a mutant of status_result: only the exit status 1 is an error
status_result_one_only(status) ==
  IF status = 1 THEN "Plugin exited with error (non-zero status)" ELSE "Ok"

\* if !status.success() { return Err(..) } Ok(())
status_result(status) ==
  IF status = 0 THEN "Ok" ELSE "Plugin exited with error (non-zero status)"

\* drop(cleanup_guard), then the exit status decides the result: the drop
\* does not look at the status, nor the status check at the drop
FinishExecutePlugin ==
  /\ run.pc = "finish"
  /\ \E o \in DropOutcomes(RunReturn(run, status_result(run.status)), disk) :
       /\ run' = o.run
       /\ disk' = o.disk
  /\ UNCHANGED procs
  /\ UNCHANGED notRunVars
----------------------------------------------------------------------------
(* add_plugin_with_config and update_plugin *)

\* at most this many registry sources in mis.toml
MaxSources == 2

\* at most this many installed plugins
MaxPlugins == 2

R_github == <<"h","t","t","p","s",":","/","/","g","i","t","h","u","b",".","c","o","m","/","u","/","r",".","g","i","t">>

R_ssh == <<"g","i","t","@","g","i","t","h","u","b",".","c","o","m",":","u","/","r",".","g","i","t">>

R_localhost == <<"h","t","t","p",":","/","/","l","o","c","a","l","h","o","s","t",":","8","0","8","0","/","m",".","g","i","t">>

R_file == <<"f","i","l","e",":","/","/","/","e","t","c","/","p","a","s","s","w","d">>

\* registry URLs of mis.toml, of --registry and of installed manifests
RegistryUrls == {R_github, R_ssh, R_localhost, R_file}

\* plugin names on the command line: one valid, one with a separator, one blank
PluginNames == { <<"t","o","o","l">>, <<"a","/","b">>, <<" ">> }

InvalidNameChars == {"/", "\\", ":", "*", "?", "\"", "<", ">", "|"}

\* the input validation of add_plugin_with_config
PluginNameOk(plugin) ==
  /\ Trim(plugin) # <<>>
  /\ \A i \in 1..Len(plugin) : plugin[i] \notin InvalidNameChars

\* the registry sources: the --registry override, else those of the config
RegistrySources(registry, config_registry) ==
  IF registry # None THEN <<registry[1]>>
  ELSE IF config_registry # None THEN config_registry[1]
  ELSE <<>>

\* a mutant of FirstRejectedSource: only the first source is validated
FirstRejectedSourceHeadOnly(sources) ==
  IF sources # <<>> /\ ~validate_registry_url(sources[1]).ok THEN 1 ELSE 0

\* the loop that validates every source: the index of the first source that
\* validate_registry_url rejects, or 0
FirstRejectedSource(sources) ==
  IF \E i \in DOMAIN sources : ~validate_registry_url(sources[i]).ok
  THEN CHOOSE i \in DOMAIN sources :
         /\ ~validate_registry_url(sources[i]).ok
         /\ \A k \in 1..(i - 1) : validate_registry_url(sources[k]).ok
  ELSE 0

AddIdle ==
  [pc |-> "idle", plugin |-> <<>>, registry |-> None, sources |-> <<>>,
   next |-> 0, result |-> "none"]

notAddVars == <<phase, perms, buildIn, urlIn, urlPurpose, urlOut, run, disk, procs, upd,
  call, ctx, launches, tmpfiles>>

\* add_plugin_with_config up to the call of temp_clone_repositories
AddPlugin ==
  /\ add.pc = "idle"
  /\ \E plugin \in PluginNames,
        registry \in {None} \cup {Some(u) : u \in RegistryUrls},
        config_registry \in {None} \cup {Some(l) : l \in SeqsUpTo(RegistryUrls, MaxSources)} :
       LET sources == RegistrySources(registry, config_registry)
           a == [add EXCEPT !.plugin = plugin, !.registry = registry,
                            !.sources = sources]
       IN  add' =
             IF ~PluginNameOk(plugin)
               THEN [a EXCEPT !.pc = "done", !.result = "Invalid plugin name"]
             ELSE IF sources = <<>>
               THEN [a EXCEPT !.pc = "done", !.result = "No registry sources found"]
             ELSE IF FirstRejectedSource(sources) # 0
               THEN [a EXCEPT !.pc = "done",
                              !.result = "Security validation failed for registry"]
             ELSE [a EXCEPT !.pc = "clone", !.next = 1]
  /\ UNCHANGED cloned
  /\ UNCHANGED notAddVars

\* git_utils::shallow_clone_repo(url, path): the URL is fetched over the
\* network; the call is recorded in cloned
ShallowCloneRepo(log, url) == Append(log, url)

\* one iteration of temp_clone_repositories
CloneNextSource ==
  /\ add.pc = "clone"
  /\ add.next <= Len(add.sources)
  /\ \/ /\ add' = [add EXCEPT !.pc = "done", !.result = "TempDir::new failed"]
        /\ cloned' = cloned
     \/ /\ cloned' = ShallowCloneRepo(cloned, add.sources[add.next])
        /\ \E success \in BOOLEAN :
             add' = IF success THEN [add EXCEPT !.next = @ + 1]
                    ELSE [add EXCEPT !.pc = "done", !.result = "Failed to clone"]
  /\ UNCHANGED notAddVars

\* the loop over the requested plugins, which reads the cloned registries only
InstallPlugins ==
  /\ add.pc = "clone"
  /\ add.next > Len(add.sources)
  /\ \E result \in {"Ok", "Plugin already exists", "Install failed"} :
       add' = [add EXCEPT !.pc = "done", !.result = result]
  /\ UNCHANGED cloned
  /\ UNCHANGED notAddVars

\* the installed plugins: a name and the registry field of its manifest
InstalledNames == {"alpha", "beta"}

Installed ==
  UNION {[names -> {None} \cup {Some(u) : u \in RegistryUrls}] :
           names \in {n \in SUBSET InstalledNames : Cardinality(n) <= MaxPlugins}}

\* get_all_plugin_names: the directory names, sorted
RECURSIVE SortedNames(_)
SortedNames(names) ==
  IF names = {} THEN <<>>
  ELSE IF "alpha" \in names THEN <<"alpha">> \o SortedNames(names \ {"alpha"})
  ELSE LET n == CHOOSE x \in names : TRUE IN <<n>> \o SortedNames(names \ {n})

UpdIdle ==
  [pc |-> "idle", installed |-> <<>>, plugin |-> None, dry_run |-> FALSE,
   plugins |-> <<>>, next |-> 0, updated_count |-> 0, failed_count |-> 0,
   result |-> "none"]

notUpdVars == <<phase, perms, buildIn, urlIn, urlPurpose, urlOut, run, disk, procs, add,
  call, ctx, launches, tmpfiles>>

\* update_single_plugin: the results it can return, each with the registry
\* URL it cloned on the way (None when it cloned nothing)
update_single_plugin(installed, plugin_name, dry_run) ==
  IF plugin_name \notin DOMAIN installed
    THEN {[result |-> "Plugin not found", clone |-> None]}
  ELSE IF installed[plugin_name] = None
    THEN {[result |-> "Plugin has no registry field", clone |-> None]}
  ELSE LET registry_url == installed[plugin_name][1] IN
    IF ~validate_registry_url(registry_url).ok
      THEN {[result |-> "Security validation failed for registry", clone |-> None]}
    ELSE IF dry_run THEN {[result |-> "Ok", clone |-> None]}
    ELSE {[result |-> "TempDir::new failed", clone |-> None]}
         \cup {[result |-> r, clone |-> Some(registry_url)] :
                 r \in {"Failed to clone", "Plugin not found in registry",
                        "Copy failed", "Ok"}}

\* update_plugin(plugin, dry_run): a named plugin is updated at once; for
\* None the names of all installed plugins are listed first
UpdatePlugin ==
  /\ upd.pc = "idle"
  /\ \E installed \in Installed, dry_run \in BOOLEAN,
        plugin \in {None} \cup {Some(n) : n \in InstalledNames} :
       LET u == [upd EXCEPT !.installed = installed, !.plugin = plugin,
                            !.dry_run = dry_run]
       IN  IF plugin # None
           THEN \E o \in update_single_plugin(installed, plugin[1], dry_run) :
                  /\ upd' = [u EXCEPT !.pc = "done", !.result = o.result]
                  /\ cloned' = IF o.clone # None
                               THEN ShallowCloneRepo(cloned, o.clone[1])
                               ELSE cloned
           ELSE /\ cloned' = cloned
                /\ upd' =
                     IF DOMAIN installed = {} \/ dry_run
                     THEN [u EXCEPT !.pc = "done", !.result = "Ok"]
                     ELSE [u EXCEPT !.pc = "all", !.next = 1,
                                    !.plugins = SortedNames(DOMAIN installed)]
  /\ UNCHANGED notUpdVars

\* one iteration of the loop of update_all_plugins: a failure is counted
UpdateNextPlugin ==
  /\ upd.pc = "all"
  /\ upd.next <= Len(upd.plugins)
  /\ \E o \in update_single_plugin(upd.installed, upd.plugins[upd.next], FALSE) :
       /\ upd' = IF o.result = "Ok"
                 THEN [upd EXCEPT !.next = @ + 1, !.updated_count = @ + 1]
                 ELSE [upd EXCEPT !.next = @ + 1, !.failed_count = @ + 1]
       /\ cloned' = IF o.clone # None THEN ShallowCloneRepo(cloned, o.clone[1])
                    ELSE cloned
  /\ UNCHANGED notUpdVars

\* the loop is over: the counts are printed and Ok(()) is returned
FinishUpdateAll ==
  /\ upd.pc = "all"
  /\ upd.next > Len(upd.plugins)
  /\ upd' = [upd EXCEPT !.pc = "done", !.result = "Ok"]
  /\ UNCHANGED cloned
  /\ UNCHANGED notUpdVars
----------------------------------------------------------------------------
(* Single calls of the builder methods and of to_deno_args, on inputs that   *)
(* cover every rejection class of the three validators                       *)

\* beginnings of the paths tried: every denylisted prefix, and beginnings
\* that are near one (leading blank, other case, longer name, not at the start)
PathPrefixes ==
  { <<"/","e","t","c","/">>, <<"/","r","o","o","t","/">>,
    <<"/","s","y","s","/">>, <<"/","p","r","o","c","/">>,
    <<"/","d","e","v","/">>, <<"/","t","m","p","/">>,
    <<"/","b","o","o","t","/">>, <<"/","u","s","r","/","b","i","n","/">>,
    <<"/","u","s","r","/","s","b","i","n","/">>, <<"/","b","i","n","/">>,
    <<"/","s","b","i","n","/">>,
    <<"C",":","\\","W","i","n","d","o","w","s","\\">>,
    <<"C",":","\\","P","r","o","g","r","a","m"," ","F","i","l","e","s","\\">>,
    <<"C",":","\\","U","s","e","r","s","\\">>,
    <<"C",":","\\","t","e","m","p","\\">>,
    <<"/","S","y","s","t","e","m","/">>,
    <<"/","L","i","b","r","a","r","y","/">>,
    <<"/","A","p","p","l","i","c","a","t","i","o","n","s","/">>, <<>>,
    <<".","/">>, <<"/","w","/">>, <<"/","h","o","m","e","/","u","/">>,
    <<" ","/","e","t","c","/">>, <<"/","E","T","C","/">>,
    <<"/","e","t","c","x","/">>, <<"x","/","t","m","p","/">>,
    <<"c",":","\\","w","i","n","d","o","w","s","\\">> }

PathTails ==
  { <<"x">>, <<"x"," ">>, <<"a","/",".",".","/","b">>, <<".",".">>,
    <<"a",".",".","b">> }

\* blank strings, the denylisted directories without their trailing slash
\* and directories above them
OtherPaths ==
  { <<>>, <<" ">>, <<"\t","\n">>, <<"/","e","t","c">>, <<"/","t","m","p">>,
    <<"C",":","\\","W","i","n","d","o","w","s">>, <<"/">>, <<"/","u","s","r">> }

Paths == {pre \o tail : pre \in PathPrefixes, tail \in PathTails} \cup OtherPaths

\* hosts in every rejection class of validate_network_domain and hosts near one
HostBases ==
  { <<>>, <<"*">>, <<"*",".","a",".","i","o">>, <<"a",".","*",".","i","o">>,
    <<"0",".","0",".","0",".","0">>, <<":",":">>,
    <<"l","o","c","a","l","h","o","s","t">>,
    <<"1","2","7",".","0",".","0",".","1">>, <<":",":","1">>,
    <<"1","6","9",".","2","5","4",".","1","6","9",".","2","5","4">>,
    <<"1","6","9",".","2","5","4",".","1","6","9",".","2","5","4",".","n","i","p",".","i","o">>,
    <<"1","6","9",".","2","5","4",".","1","6","9",".","2","5","4",".","x","i","p",".","i","o">>,
    <<"1","6","9","-","2","5","4","-","1","6","9","-","2","5","4",".","n","i","p",".","i","o">>,
    <<"1","0","0",".","1","0","0",".","1","0","0",".","2","0","0">>,
    <<"m","e","t","a","d","a","t","a",".","g","o","o","g","l","e",".","i","n","t","e","r","n","a","l">>,
    <<"m","e","t","a","d","a","t","a",".","a","z","u","r","e",".","c","o","m">>,
    <<"i","n","s","t","a","n","c","e","-","d","a","t","a",".","e","c","2",".","i","n","t","e","r","n","a","l">>,
    <<"m","e","t","a","d","a","t","a">>,
    <<"m","e","t","a","d","a","t","a",".","l","o","c","a","l">>,
    <<"1","9","2",".","1","6","8",".","1",".","1">>,
    <<"1","0",".","0",".","0",".","1">>,
    <<"1","7","2",".","1","6",".","0",".","1">>,
    <<"1","7","2",".","2","0",".","1",".","1">>,
    <<"1","7","2",".","3","1",".","2","5","5",".","1">>, <<"a",".","i","o">>,
    <<"a","p","i",".","g","i","t","h","u","b",".","c","o","m">>,
    <<"1","7","2",".","1","5",".","0",".","1">>,
    <<"1","7","2",".","3","2",".","0",".","1">>,
    <<"1","1",".","0",".","0",".","1">>,
    <<"1","9","2",".","1","6","9",".","1",".","1">>,
    <<"1",".","1","0",".","0",".","1">>,
    <<"l","o","c","a","l","h","o","s","t",".","a",".","i","o">>,
    <<"m","e","t","a","d","a","t","a",".","a",".","i","o">>,
    <<"1","2","7",".","0",".","0",".","2">> }

LowerToUpper ==
  [c \in {UpperToLower[u] : u \in DOMAIN UpperToLower} |->
     CHOOSE u \in DOMAIN UpperToLower : UpperToLower[u] = c]

\* the upper-case spelling of a host
ToUppercase(s) ==
  [i \in 1..Len(s) |-> IF s[i] \in DOMAIN LowerToUpper THEN LowerToUpper[s[i]] ELSE s[i]]

HostVariants == {"plain", "upper", "leading", "trailing", "both"}

\* a spelling of host h as it may stand in a manifest
HostVariant(h, v) ==
  CASE v = "plain"    -> h
    [] v = "upper"    -> ToUppercase(h)
    [] v = "leading"  -> <<" ">> \o h
    [] v = "trailing" -> h \o <<"\t">>
    [] v = "both"     -> <<"\n", " ">> \o ToUppercase(h) \o <<" ", "\r">>

Hosts == {HostVariant(h, v) : h \in HostBases, v \in HostVariants}

\* the characters char::is_whitespace holds for, among those the model uses
WhitespaceChars == {" ", "\t", "\n", "\r", "\f"}

\* the shell metacharacters a command may hold
ShellMetachars == {"&", "|", ";", ">", "<", BACKTICK, "$", "(", ")", "{", "}"}

\* commands tried: the denylisted names, other single tokens, and strings
\* with one whitespace character or one shell metacharacter at each position
CommandTokens ==
  { <<"r","m">>, <<"d","e","l">>, <<"f","o","r","m","a","t">>,
    <<"f","d","i","s","k">>, <<"d","d">>, <<"m","k","f","s">>,
    <<"s","u","d","o">>, <<"s","u">>, <<"c","h","m","o","d">>,
    <<"c","h","o","w","n">>, <<"p","a","s","s","w","d">>,
    <<"c","u","r","l">>, <<"w","g","e","t">>, <<"n","c">>,
    <<"n","e","t","c","a","t">>, <<"t","e","l","n","e","t">>,
    <<"s","s","h">>, <<"s","c","p">>, <<"r","s","y","n","c">>,
    <<"f","t","p">>, <<"e","v","a","l">>, <<"e","x","e","c">>,
    <<"g","i","t">>, <<"n","p","m">>, <<"d","o","c","k","e","r">>,
    <<"R","M">>, <<"r","m","x">>, <<"x","r","m">>,
    <<"/","b","i","n","/","r","m">>, <<"a","-","b","_","c",".","d">> }

Commands ==
  CommandTokens
  \cup {<<>>, <<"r","m"," ","-","r","f"," ","/">>}
  \cup {w : w \in {<<c>> : c \in WhitespaceChars \cup ShellMetachars}}
  \cup {<<"g","i","t">> \o <<c>> \o <<"l","o","g">> : c \in WhitespaceChars \cup ShellMetachars}
  \cup {<<c>> \o <<"g","i","t">> : c \in WhitespaceChars \cup ShellMetachars}
  \cup {<<"g","i","t">> \o <<c>> : c \in WhitespaceChars \cup ShellMetachars}

\* a manifest whose plugin level grants an entry in every list
GrantingManifest ==
  [permissions |-> Some(SecurityPermissions(<<<<"/","w","/","x">>>>, <<<<"x">>>>, Some(FALSE),
                                            <<<<"a",".","i","o">>>>, <<<<"g","i","t">>>>)),
   commands |-> [c \in {"deploy"} |-> PluginCommand(None)]]

\* the policies a builder call is made on: the defaults of either project
\* root, and a policy compiled from a manifest with grants
BasePolicies ==
  {safe_defaults(r) : r \in ProjectRoots}
  \cup {build_plugin_permissions(<<"/","w">>, GrantingManifest, "deploy")}

\* PluginPermissions values handed to to_deno_args: every list empty or not,
\* with one or two entries
Policies ==
  {[file_read |-> fr, file_write |-> fw, env_access |-> env, network |-> net,
    run_commands |-> rc] :
      fr \in {<<>>, << <<"/","w">> >>, << <<"/","w">>, MAKEITSO_DIR >>},
      fw \in {<<>>, << <<"/","w">> >>},
      env \in BOOLEAN,
      net \in {<<>>, << <<"a",".","i","o">> >>,
                << <<"a",".","i","o">>, <<"b",".","i","o">> >>},
      rc \in {<<>>, << <<"g","i","t">> >>, << <<"g","i","t">>, <<"n","p","m">> >>}}

CallIdle ==
  [kind |-> "none", input |-> <<>>, out |-> Err(""),
   before |-> NoPerms, after |-> NoPerms, args |-> <<>>]

notCallVars ==
  <<phase, perms, buildIn, urlIn, urlPurpose, urlOut, run, disk, procs, add,
    upd, cloned, ctx, launches, tmpfiles>>

\* the record of one builder call: the validator's result on the input and
\* the policy before and after
Called(kind, input, out, before, after) ==
  [kind |-> kind, input |-> input, out |-> out,
   before |-> before, after |-> after, args |-> <<>>]

\* permissions.allow_read(path)
CallAllowRead ==
  /\ call.kind = "none"
  /\ \E p \in BasePolicies, path \in Paths :
       call' = Called("allow_read", path, validate_file_path(path), p,
                      allow_read(p, path))
  /\ UNCHANGED notCallVars

\* permissions.allow_write(path)
CallAllowWrite ==
  /\ call.kind = "none"
  /\ \E p \in BasePolicies, path \in Paths :
       call' = Called("allow_write", path, validate_file_path(path), p,
                      allow_write(p, path))
  /\ UNCHANGED notCallVars

\* permissions.allow_network(domain)
CallAllowNetwork ==
  /\ call.kind = "none"
  /\ \E p \in BasePolicies, domain \in Hosts :
       call' = Called("allow_network", domain, validate_network_domain(domain), p,
                      allow_network(p, domain))
  /\ UNCHANGED notCallVars

\* permissions.allow_run(command)
CallAllowRun ==
  /\ call.kind = "none"
  /\ \E p \in BasePolicies, command \in Commands :
       call' = Called("allow_run", command, validate_command(command), p,
                      allow_run(p, command))
  /\ UNCHANGED notCallVars

\* permissions.to_deno_args()
CallToDenoArgs ==
  /\ call.kind = "none"
  /\ \E p \in Policies :
       call' = [kind |-> "to_deno_args", input |-> <<>>, out |-> Err(""),
                before |-> p, after |-> p, args |-> to_deno_args(p)]
  /\ UNCHANGED notCallVars
----------------------------------------------------------------------------
(* ExecutionContext::from_parts and its serialization for the plugin *)

\* the orders in which a HashMap with key set S may be iterated: the order
\* is unspecified and differs from one HashMap to the next
IterationOrders(S) ==
  {f \in [1..Cardinality(S) -> S] : \A i, j \in 1..Cardinality(S) : f[i] = f[j] => i = j}

\* PluginMeta
PluginMeta(name, description, version, registry) ==
  [name |-> name, description |-> description, version |-> version,
   registry |-> registry]

\* PluginCommand with its script and its permissions
CtxCommand(script, perms_opt) == [script |-> script, permissions |-> perms_opt]

\* the permission sections a manifest of CtxManifests may carry
CtxPermissions ==
  {None,
   Some(SecurityPermissions(<<<<"s","r","c">>>>, <<>>, Some(FALSE),
                            <<<<"a",".","i","o">>>>, <<>>)),
   Some(SecurityPermissions(<<>>, <<>>, None, <<>>, <<<<"g","i","t">>>>))}

CtxDependencies == {<<>>, [std |-> D_ok]}

\* manifests with one or two commands, with and without dependencies, and
\* with every combination of plugin-level and command-level permissions
CtxManifests ==
  {[plugin |-> PluginMeta("p", None, "1.0", Some(R_github)),
    commands |-> [c \in names |-> CtxCommand(c, IF c = "deploy" THEN cp ELSE tp)],
    deno_dependencies |-> deps,
    permissions |-> pp] :
      names \in {{"deploy"}, {"deploy", "test"}},
      deps \in CtxDependencies,
      pp \in CtxPermissions, cp \in CtxPermissions, tp \in CtxPermissions}

\* plugin_args of the command line
CtxArgs == {<<>>, [env |-> "prod", verbose |-> "true"]}

\* a mutant of ManifestData: the commands are exposed with their definitions
ManifestDataWithDefinitions(plugin_manifest, keys) ==
  [plugin |-> plugin_manifest.plugin,
   commands |-> [i \in DOMAIN keys |-> <<keys[i], plugin_manifest.commands[keys[i]]>>],
   deno_dependencies |-> plugin_manifest.deno_dependencies,
   registry |-> plugin_manifest.plugin.registry]

\* ManifestData built in from_parts; keys is plugin_manifest.commands.keys()
\* in the order the HashMap yields them
ManifestData(plugin_manifest, keys) ==
  [plugin |-> plugin_manifest.plugin,
   commands |-> keys,
   deno_dependencies |-> plugin_manifest.deno_dependencies,
   registry |-> plugin_manifest.plugin.registry]

\* ExecutionContext::from_parts; config and project_variables are JSON values
\* that do not come from the manifest
from_parts(args, plugin_manifest, keys, plugin_user_config, project_variables, project_root, meta, dry_run) ==
  [plugin_args |-> args,
   manifest |-> ManifestData(plugin_manifest, keys),
   config |-> plugin_user_config,
   project_variables |-> project_variables,
   project_root |-> project_root,
   meta |-> meta,
   dry_run |-> dry_run]

\* serde_json::to_string_pretty(ctx): plugin_args, a HashMap, is written in
\* its iteration order; every other map is a sorted JSON object
to_string_pretty(c, arg_keys) ==
  [c EXCEPT !.plugin_args = [i \in DOMAIN arg_keys |-> <<arg_keys[i], c.plugin_args[arg_keys[i]]>>]]

\* the meta run_cmd builds from the manifest
RunMeta(plugin_manifest) ==
  PluginMeta("p", plugin_manifest.plugin.description,
             plugin_manifest.plugin.version, None)

\* the serialized context of one run_cmd call
SerializedContext(args, plugin_manifest, keys, arg_keys, dry_run) ==
  to_string_pretty(
    from_parts(args, plugin_manifest, keys, <<>>, <<>>, <<"/","w">>,
               RunMeta(plugin_manifest), dry_run),
    arg_keys)

CtxIdle ==
  [pc |-> "idle", args |-> <<>>, dry_run |-> FALSE,
   manifest1 |-> None, context1 |-> None,
   manifest2 |-> None, context2 |-> None]

notCtxVars ==
  <<phase, perms, buildIn, urlIn, urlPurpose, urlOut, run, disk, procs, add,
    upd, cloned, call, launches, tmpfiles>>

\* a first run: the context is built from a manifest and serialized
FromPartsFirst ==
  /\ ctx.pc = "idle"
  /\ \E args \in CtxArgs, dry_run \in BOOLEAN, m \in CtxManifests :
       \E keys \in IterationOrders(DOMAIN m.commands),
          arg_keys \in IterationOrders(DOMAIN args) :
         ctx' = [ctx EXCEPT !.pc = "one", !.args = args, !.dry_run = dry_run,
                            !.manifest1 = Some(m),
                            !.context1 = Some(SerializedContext(args, m, keys,
                                                                arg_keys, dry_run))]
  /\ UNCHANGED notCtxVars

\* a second run with the same command line, on any manifest
FromPartsSecond ==
  /\ ctx.pc = "one"
  /\ \E m \in CtxManifests :
       \E keys \in IterationOrders(DOMAIN m.commands),
          arg_keys \in IterationOrders(DOMAIN ctx.args) :
         ctx' = [ctx EXCEPT !.pc = "two",
                            !.manifest2 = Some(m),
                            !.context2 = Some(SerializedContext(ctx.args, m, keys,
                                                                arg_keys, ctx.dry_run))]
  /\ UNCHANGED notCtxVars
----------------------------------------------------------------------------
(* execute_plugin calls that overlap on one machine *)

\* at most this many execute_plugin calls are in progress at once
MaxInvocations == 2

Invocations == 1..MaxInvocations

\* every transport file a call may name
TransportPaths == {ContextFile(temp_dir, pid) : temp_dir \in TempDirs, pid \in Pids}

\* no file at the path, or nothing read or removed yet
NoWriter == [by |-> 0, pid |-> 0]

\* the plugin found no file at the path it was given
MissingFile == [by |-> 0, pid |-> 1]

\* a file written by call i, made in the host process pid
Writer(i, pid) == [by |-> i, pid |-> pid]

LaunchIdle ==
  [pc |-> "idle", pid |-> 0, context_file |-> <<>>, guard |-> FALSE,
   written |-> FALSE, read |-> NoWriter, removed |-> NoWriter]

notLaunchVars ==
  <<phase, perms, buildIn, urlIn, urlPurpose, urlOut, run, disk, procs, add,
    upd, cloned, call, ctx>>

\* execute_plugin is entered and names its transport file. std::process::id()
\* is the id of the host process: calls made by one host process (execute_plugin
\* is a public function, any thread may call it) get the same id, calls of
\* host processes that live at the same time get different ids.
LaunchCall ==
  /\ \E i \in Invocations, pid \in Pids, temp_dir \in TempDirs :
       /\ launches[i].pc = "idle"
       /\ launches' = [launches EXCEPT ![i].pc = "write", ![i].pid = pid,
                         ![i].context_file = ContextFile(temp_dir, pid)]
  /\ UNCHANGED tmpfiles
  /\ UNCHANGED notLaunchVars

\* std::fs::write(&context_file, json)?, then ContextFileCleanup::new: the
\* file is created, or an existing one truncated and rewritten
LaunchWrite ==
  /\ \E i \in Invocations :
       /\ launches[i].pc = "write"
       /\ \/ /\ tmpfiles' = [tmpfiles EXCEPT ![launches[i].context_file] =
                               Writer(i, launches[i].pid)]
             /\ launches' = [launches EXCEPT ![i].pc = "spawn", ![i].guard = TRUE,
                               ![i].written = TRUE]
          \/ /\ tmpfiles' = tmpfiles
             /\ launches' = [launches EXCEPT ![i].pc = "done"]
  /\ UNCHANGED notLaunchVars

\* Command::new("deno")...spawn(): the plugin runs, or the launch fails and
\* the guard is dropped on the way out
LaunchSpawn ==
  /\ \E i \in Invocations :
       /\ launches[i].pc = "spawn"
       /\ \E started \in BOOLEAN :
            launches' = [launches EXCEPT ![i].pc = IF started THEN "running" ELSE "drop"]
  /\ UNCHANGED tmpfiles
  /\ UNCHANGED notLaunchVars

\* the plugin opens the file named after --context-file
PluginRead ==
  /\ \E i \in Invocations :
       /\ launches[i].pc = "running"
       /\ launches[i].read = NoWriter
       /\ launches' = [launches EXCEPT ![i].read =
                         IF tmpfiles[launches[i].context_file] = NoWriter
                         THEN MissingFile
                         ELSE tmpfiles[launches[i].context_file]]
  /\ UNCHANGED tmpfiles
  /\ UNCHANGED notLaunchVars

\* child.wait() returns
LaunchWait ==
  /\ \E i \in Invocations :
       /\ launches[i].pc = "running"
       /\ launches' = [launches EXCEPT ![i].pc = "drop"]
  /\ UNCHANGED tmpfiles
  /\ UNCHANGED notLaunchVars

\* ContextFileCleanup::drop: the file at the path, if there is one, is
\* removed, whoever wrote it last; remove_file may fail
LaunchDrop ==
  /\ \E i \in Invocations :
       /\ launches[i].pc = "drop"
       /\ LET f == launches[i].context_file IN
          \/ /\ tmpfiles[f] # NoWriter
             /\ tmpfiles' = [tmpfiles EXCEPT ![f] = NoWriter]
             /\ launches' = [launches EXCEPT ![i].pc = "done", ![i].guard = FALSE,
                               ![i].removed = tmpfiles[f]]
          \/ /\ tmpfiles' = tmpfiles
             /\ launches' = [launches EXCEPT ![i].pc = "done", ![i].guard = FALSE]
  /\ UNCHANGED notLaunchVars
----------------------------------------------------------------------------
(* Specifications *)

\* nothing has been called yet
Init ==
  /\ phase = "init"
  /\ perms = NoPerms
  /\ buildIn = NoBuild
  /\ urlIn = <<>>
  /\ urlPurpose = "none"
  /\ urlOut = Err("")
  /\ run = RunIdle
  /\ disk = {}
  /\ procs = <<>>
  /\ add = AddIdle
  /\ upd = UpdIdle
  /\ cloned = <<>>
  /\ call = CallIdle
  /\ ctx = CtxIdle
  /\ launches = [i \in Invocations |-> LaunchIdle]
  /\ tmpfiles = [f \in TransportPaths |-> NoWriter]

PermNext ==
  \/ BuildPluginPermissions
  \/ AllowRead
  \/ AllowWrite
  \/ AllowNetwork
  \/ AllowRun

\* the permission compiler and the builder calls on its result
SpecPerm == Init /\ [][PermNext]_vars

BuildNext ==
  \/ BuildPluginPermissions

\* one build_plugin_permissions call on every manifest and command name
SpecBuild == Init /\ [][BuildNext]_vars

UrlNext ==
  \/ ValidateRegistryUrl
  \/ ValidateDenoDependencyUrl

\* the URL validators on every URL of Urls
SpecUrl == Init /\ [][UrlNext]_vars

RunNext ==
  \/ RunCmd
  \/ ValidateDependency
  \/ EnterExecutePlugin
  \/ CacheDenoDependencies
  \/ CheckScript
  \/ WriteContextFile
  \/ CurrentDir
  \/ SpawnPlugin
  \/ WaitChild
  \/ FinishExecutePlugin

\* one run_cmd call, from the command line to the return of execute_plugin
SpecRun == Init /\ [][RunNext]_vars

AddNext ==
  \/ AddPlugin
  \/ CloneNextSource
  \/ InstallPlugins

\* one add_plugin_with_config call
SpecAdd == Init /\ [][AddNext]_vars

UpdNext ==
  \/ UpdatePlugin
  \/ UpdateNextPlugin
  \/ FinishUpdateAll

\* one update_plugin call
SpecUpdate == Init /\ [][UpdNext]_vars


ValNext ==
  \/ CallAllowRead
  \/ CallAllowWrite
  \/ CallAllowNetwork
  \/ CallAllowRun
  \/ CallToDenoArgs

\* one builder call, or one to_deno_args call, on every input of the universes
SpecValidate == Init /\ [][ValNext]_vars

CtxNext ==
  \/ FromPartsFirst
  \/ FromPartsSecond

\* two runs, each building and serializing an ExecutionContext
SpecContext == Init /\ [][CtxNext]_vars

LaunchNext ==
  \/ LaunchCall
  \/ LaunchWrite
  \/ LaunchSpawn
  \/ PluginRead
  \/ LaunchWait
  \/ LaunchDrop

\* execute_plugin calls that overlap in time on one machine
SpecLaunch == Init /\ [][LaunchNext]_vars
----------------------------------------------------------------------------
(* Claims about the permission compiler *)

AllAccepted(list, validate(_)) == \A i \in DOMAIN list : validate(list[i]).ok

\* C1: every entry of every list of a compiled policy, the safe defaults
\* included, is accepted by the validator of its list, also after further
\* allow_read / allow_write / allow_network / allow_run calls.
C1_PolicyValidity ==
  phase \in {"built", "extended"} =>
    /\ AllAccepted(perms.file_read, validate_file_path)
    /\ AllAccepted(perms.file_write, validate_file_path)
    /\ AllAccepted(perms.network, validate_network_domain)
    /\ AllAccepted(perms.run_commands, validate_command)

\* the declaration a level contributes: none when the level declares nothing
DeclOf(perms_opt) == IF perms_opt # None THEN perms_opt[1] ELSE NoDeclaration

PluginDecl == DeclOf(buildIn.plugin_manifest[1].permissions)

CommandDecl ==
  LET command == GetCommand(buildIn.plugin_manifest[1], buildIn.command_name)
  IN  IF command # None THEN DeclOf(command[1].permissions) ELSE NoDeclaration

\* the accepted (normalized) forms of the entries of a declared list
AcceptedSet(list, validate(_)) ==
  {validate(list[i]).val : i \in {j \in DOMAIN list : validate(list[j]).ok}}

\* the policy compiled from the plugin-level declaration alone
PluginOnlyPolicy ==
  LET m == buildIn.plugin_manifest[1] IN
  build_plugin_permissions(
    buildIn.project_root,
    [m EXCEPT !.commands = [c \in DOMAIN m.commands |-> PluginCommand(None)]],
    buildIn.command_name)

\* C9: each list of the compiled policy contains the same list compiled from
\* the plugin-level declaration alone, and is the union of the safe defaults,
\* the accepted plugin-level entries and the accepted command-level entries.
C9_CommandGrantsAdditive ==
  phase = "built" =>
    /\ Range(PluginOnlyPolicy.file_read) \subseteq Range(perms.file_read)
    /\ Range(PluginOnlyPolicy.file_write) \subseteq Range(perms.file_write)
    /\ Range(PluginOnlyPolicy.network) \subseteq Range(perms.network)
    /\ Range(PluginOnlyPolicy.run_commands) \subseteq Range(perms.run_commands)
    /\ Range(perms.file_read) =
         {buildIn.project_root, MAKEITSO_DIR}
         \cup AcceptedSet(PluginDecl.file_read, validate_file_path)
         \cup AcceptedSet(CommandDecl.file_read, validate_file_path)
    /\ Range(perms.file_write) =
         {buildIn.project_root}
         \cup AcceptedSet(PluginDecl.file_write, validate_file_path)
         \cup AcceptedSet(CommandDecl.file_write, validate_file_path)
    /\ Range(perms.network) =
         AcceptedSet(PluginDecl.network, validate_network_domain)
         \cup AcceptedSet(CommandDecl.network, validate_network_domain)
    /\ Range(perms.run_commands) =
         AcceptedSet(PluginDecl.run_commands, validate_command)
         \cup AcceptedSet(CommandDecl.run_commands, validate_command)

\* a compilation in which the plugin grants git and the command adds npm
C9_Witness ==
  /\ phase = "built"
  /\ PluginDecl.run_commands = << <<"g","i","t">> >>
  /\ CommandDecl.run_commands = << <<"n","p","m">> >>
  /\ perms.run_commands = << <<"g","i","t">>, <<"n","p","m">> >>

\* C10: env_access of the compiled policy is the command-level value when the
\* invoked command declares one, else the plugin-level value when the plugin
\* declares one, else true.
C10_EnvAccessResolution ==
  phase = "built" =>
    perms.env_access =
      IF CommandDecl.env_access # None THEN CommandDecl.env_access[1]
      ELSE IF PluginDecl.env_access # None THEN PluginDecl.env_access[1]
      ELSE TRUE

\* the plugin turns env_access off and the invoked command declares
\* permissions without an env_access of its own
C10_Witness ==
  /\ phase = "built"
  /\ PluginDecl.env_access = Some(FALSE)
  /\ CommandDecl.env_access = None
  /\ CommandDecl.run_commands # <<>>
  /\ perms.env_access = FALSE

\* every declared entry of a list, plugin level and invoked command
DeclaredEntries(plugin_list, command_list) == Range(plugin_list) \cup Range(command_list)

\* the entries of one list are compiled softly: accepted ones are in the
\* policy in normalized form, rejected ones are not in it
SoftCompiled(declared, validate(_), compiled) ==
  \A e \in declared :
    IF validate(e).ok THEN validate(e).val \in Range(compiled)
    ELSE e \notin Range(compiled)

\* C11: build_plugin_permissions yields a policy for every manifest and
\* command name; each declared entry its validator rejects is absent from
\* the compiled policy and each accepted entry is present in normalized form.
C11_SoftFailCompilation ==
  phase = "built" =>
    /\ SoftCompiled(DeclaredEntries(PluginDecl.file_read, CommandDecl.file_read),
                    validate_file_path, perms.file_read)
    /\ SoftCompiled(DeclaredEntries(PluginDecl.file_write, CommandDecl.file_write),
                    validate_file_path, perms.file_write)
    /\ SoftCompiled(DeclaredEntries(PluginDecl.network, CommandDecl.network),
                    validate_network_domain, perms.network)
    /\ SoftCompiled(DeclaredEntries(PluginDecl.run_commands, CommandDecl.run_commands),
                    validate_command, perms.run_commands)

\* no entry stands twice in the list
NoDuplicates(list) ==
  \A i, j \in DOMAIN list : list[i] = list[j] => i = j

\* C19: from safe_defaults on, after the plugin-level and command-level
\* declarations and after any builder calls, no list of the policy holds the
\* same entry twice.
C19_NoDuplicates ==
  phase \in {"built", "extended"} =>
    /\ NoDuplicates(perms.file_read)
    /\ NoDuplicates(perms.file_write)
    /\ NoDuplicates(perms.network)
    /\ NoDuplicates(perms.run_commands)

\* the command re-declares git, granted at plugin level: git is listed once
C19_Witness ==
  /\ phase = "built"
  /\ PluginDecl.run_commands = << <<"g","i","t">> >>
  /\ CommandDecl.run_commands = << <<"g","i","t">> >>
  /\ perms.run_commands = << <<"g","i","t">> >>
----------------------------------------------------------------------------
(* Claims about the URL validators *)

\* the schemes each purpose accepts
RegistrySchemes == {S_https, S_ssh, S_git}

DependencySchemes == {S_https}

\* C7: a URL with an acceptable scheme whose host is a string that
\* validate_network_domain rejects is rejected by validate_registry_url and
\* by validate_deno_dependency_url.
C7_UrlHostUsesNetworkValidator ==
  \A h \in UrlHosts :
    ~validate_network_domain(h).ok =>
      /\ \A s \in RegistrySchemes :
           (urlPurpose = "registry" /\ urlIn = MakeUrl(s, h, "plain")) => ~urlOut.ok
      /\ \A s \in DependencySchemes :
           (urlPurpose = "dependency" /\ urlIn = MakeUrl(s, h, "plain")) => ~urlOut.ok

\* the scheme of a string, when it has one
HasScheme(s, schemes) ==
  UrlSchemeEnd(s) # 0 /\ ToLowercase(SubSeq(s, 1, UrlSchemeEnd(s) - 1)) \in schemes

RejectedSchemes == {S_http, S_file, S_javascript, S_data, S_ftp, S_mailto}

\* C8: an accepted dependency URL has scheme https; an accepted registry URL
\* is the scheme-less SSH shorthand or has scheme https, ssh or git; no URL
\* with scheme http, file, javascript, data, ftp or mailto is accepted for
\* either purpose, whatever its host.
C8_SchemePolicyByPurpose ==
  /\ (urlPurpose = "dependency" /\ urlOut.ok) => HasScheme(Trim(urlIn), {S_https})
  /\ (urlPurpose = "registry" /\ urlOut.ok) =>
        \/ /\ StartsWith(Trim(urlIn), <<"g","i","t","@">>)
           /\ UrlSchemeEnd(Trim(urlIn)) = 0
        \/ HasScheme(Trim(urlIn), {S_https, S_ssh, S_git})
  /\ (urlPurpose # "none" /\ HasScheme(Trim(urlIn), RejectedSchemes)) => ~urlOut.ok

\* a plain-HTTP registry URL on a public host has been rejected
C8_Witness ==
  /\ urlPurpose = "registry"
  /\ urlIn = MakeUrl(S_http, H_github, "plain")
  /\ ~urlOut.ok
----------------------------------------------------------------------------
(* Claims about run_cmd and execute_plugin *)

\* the comma-separated elements of the value of the --allow-read flag
ReadGrants(args) ==
  UNION {Range(Split(args[i].val, ",")) :
           i \in {j \in DOMAIN args : args[j].pre = "--allow-read="}}

\* C2: when execute_plugin reaches the spawn step, the arguments hold a
\* read grant equal to the transport file path just written, and that path
\* follows --context-file, wherever the temp directory is.
C2_DerivedReadGrant ==
  run.args # <<>> =>
    /\ run.context_file \in ReadGrants(run.args)
    /\ \E i \in 1..(Len(run.args) - 1) :
         /\ run.args[i] = Arg("--context-file", <<>>)
         /\ run.args[i + 1] = Arg("", run.context_file)

\* C3: when run_cmd / execute_plugin has returned, with Ok or with any
\* error, the transport file of the invocation does not exist, provided no
\* remove_file failed.
C3_TransportCleanup ==
  (run.pc = "done" /\ ~run.removeFailed) =>
    ContextFile(run.temp_dir, run.pid) \notin disk

\* C6: deno cache, the transport file and the plugin process come only after
\* every dependency URL was validated and accepted; a rejected dependency URL
\* makes run_cmd return an error with none of the three.
C6_DepsValidatedBeforeFetch ==
  /\ (procs # <<>> \/ disk # {} \/ run.child # "none" \/ run.context_file # <<>>) =>
       \A d \in run.deps : d \in run.validated /\ validate_deno_dependency_url(d).ok
  /\ (run.pc = "done" /\ \E d \in run.deps : ~validate_deno_dependency_url(d).ok) =>
       /\ run.result \notin {"Ok", "none"}
       /\ procs = <<>>
       /\ disk = {}
       /\ run.context_file = <<>>

\* an accepted dependency was checked first, then the rejected one ended the run
C6_Witness ==
  /\ run.pc = "done"
  /\ run.deps = {D_ok, D_http}
  /\ run.validated = {D_ok}
  /\ run.result = "Security validation failed for dependency"
  /\ procs = <<>>

----------------------------------------------------------------------------
(* Claims about the install and update flows *)

\* C4: validate_registry_url has accepted every registry source before the
\* first shallow_clone_repo call; one rejected source makes the operation
\* return an error with no source cloned.
C4_ValidateBeforeClone ==
  /\ cloned # <<>> =>
       \A i \in DOMAIN add.sources : validate_registry_url(add.sources[i]).ok
  /\ (add.pc = "done" /\ \E i \in DOMAIN add.sources :
                           ~validate_registry_url(add.sources[i]).ok) =>
       /\ add.result \notin {"Ok", "none"}
       /\ cloned = <<>>

\* a valid source followed by a rejected one: nothing was cloned
C4_Witness ==
  /\ add.pc = "done"
  /\ add.sources = <<R_github, R_localhost>>
  /\ add.result = "Security validation failed for registry"
  /\ cloned = <<>>

\* the installed plugins an update_plugin call is to update
PluginsBeingUpdated ==
  IF upd.plugin # None THEN {upd.plugin[1]} \cap DOMAIN upd.installed
  ELSE DOMAIN upd.installed

\* C5: if validate_registry_url rejects the registry URL of any plugin being
\* updated (named plugin or all installed plugins, not a dry run), update_plugin
\* returns an error and no registry is cloned.
C5_UpdateHardFails ==
  (/\ upd.pc = "done"
   /\ ~upd.dry_run
   /\ \E n \in PluginsBeingUpdated :
        /\ upd.installed[n] # None
        /\ ~validate_registry_url(upd.installed[n][1]).ok) =>
    /\ upd.result # "Ok"
    /\ cloned = <<>>
----------------------------------------------------------------------------
(* Claims about the result of execute_plugin *)

\* a deno run process was started
PluginSpawned == \E i \in DOMAIN procs : procs[i].cmd = "deno run"

\* C23: run_cmd and execute_plugin return Ok exactly when the plugin process
\* was spawned and exited with status zero; every other exit status yields
\* the one error "Plugin exited with error (non-zero status)".
C23_ExitStatusMapping ==
  run.pc = "done" =>
    /\ run.result = "Ok" <=> (PluginSpawned /\ run.child = "exited" /\ run.status = 0)
    /\ (run.child = "exited" /\ run.status # 0)
         => run.result = "Plugin exited with error (non-zero status)"

\* the plugin has exited with status 2 and the call has returned the error
C23_Witness ==
  /\ run.pc = "done"
  /\ run.child = "exited"
  /\ run.status = 2
  /\ run.result = "Plugin exited with error (non-zero status)"

\* the result execute_plugin returns from the point it has reached, the
\* removal of the transport file left aside
ResultOfProgress(r) ==
  IF r.child = "exited"
    THEN (IF r.status = 0 THEN "Ok" ELSE "Plugin exited with error (non-zero status)")
  ELSE IF r.child = "gone" THEN "wait failed"
  ELSE IF r.args # <<>> THEN "Failed to run plugin script"
  ELSE "current_dir failed"

\* C24: when the removal of the transport file fails as the guard is
\* dropped, the call returns what it returns when the removal succeeds: Ok
\* for exit status zero, the error of the failed step otherwise.
C24_CleanupFailureNonFatal ==
  (run.pc = "done" /\ run.removeFailed) => run.result = ResultOfProgress(run)

\* the plugin exited with status zero, the removal failed, the file is still
\* there and the call returned Ok
C24_Witness ==
  /\ run.pc = "done"
  /\ run.removeFailed
  /\ run.context_file \in disk
  /\ run.child = "exited"
  /\ run.status = 0
  /\ run.result = "Ok"

\* the number of plugin processes started
PluginSpawnCount == Cardinality({i \in DOMAIN procs : procs[i].cmd = "deno run"})

\* C28: while the plugin process runs the transport file, written before
\* the spawn, exists and its guard is alive, so it is removed in no state
\* in which the process runs; a result drawn from the exit status is returned only
\* after the process has exited; one process is spawned per call, none when
\* the launch failed, and a failed launch ends the call.
C28_LaunchOrdering ==
  /\ run.child = "running" => (run.context_file \in disk /\ run.guard)
  /\ PluginSpawnCount = (IF run.child = "none" THEN 0 ELSE 1)
  /\ run.result \in {"Ok", "Plugin exited with error (non-zero status)"}
       => (run.child = "exited" /\ run.pc = "done")
  /\ run.pc = "done" => ~run.guard
  /\ run.result = "Failed to run plugin script"
       => (run.pc = "done" /\ run.child = "none")

\* the plugin is running: its transport file is on disk, the host waits
C28_Witness ==
  /\ run.pc = "wait"
  /\ run.child = "running"
  /\ run.context_file \in disk
  /\ PluginSpawnCount = 1
  /\ run.result = "none"
----------------------------------------------------------------------------
(* Claims about overlapping launches *)

InProgress(i) == launches[i].pc \notin {"idle", "done"}

\* C25: two execute_plugin calls in progress at the same time, in different
\* host processes or in the same one, never name the same transport file;
\* a plugin reads the file its own call wrote, and the cleanup of a call
\* removes no file written by another call.
C25_TransportFileUnique ==
  /\ \A i, j \in Invocations :
       (i # j /\ InProgress(i) /\ InProgress(j))
         => launches[i].context_file # launches[j].context_file
  /\ \A i \in Invocations :
       /\ launches[i].read \in {NoWriter, Writer(i, launches[i].pid)}
       /\ launches[i].removed \in {NoWriter, Writer(i, launches[i].pid)}

\* C25 as amended: two execute_plugin calls in progress at the same time in
\* different host processes never name the same transport file; a plugin
\* reads, and the cleanup of a call removes, no file written by a call of
\* another host process.
C25_TransportFileUniqueAmended ==
  /\ \A i, j \in Invocations :
       (i # j /\ InProgress(i) /\ InProgress(j) /\ launches[i].pid # launches[j].pid)
         => launches[i].context_file # launches[j].context_file
  /\ \A i \in Invocations :
       /\ launches[i].read.by # 0 => launches[i].read.pid = launches[i].pid
       /\ launches[i].removed.by # 0 => launches[i].removed.pid = launches[i].pid

\* two host processes: the first call has removed its own file while the
\* plugin of the second is running and has read the file of its own call
C25_Witness ==
  /\ launches[1].pc = "done"
  /\ launches[1].removed = Writer(1, launches[1].pid)
  /\ launches[2].pc = "running"
  /\ launches[2].pid # launches[1].pid
  /\ launches[2].read = Writer(2, launches[2].pid)
  /\ tmpfiles[launches[2].context_file] = Writer(2, launches[2].pid)
----------------------------------------------------------------------------
(* Claims about the three validators and the builder methods *)

\* the call was allow_read or allow_write
PathCall == call.kind \in {"allow_read", "allow_write"}

\* the list of the policy an allow_read / allow_write call adds to
PathList(p) == IF call.kind = "allow_read" THEN p.file_read ELSE p.file_write

HasWhitespace(s) == \E i \in DOMAIN s : s[i] \in WhitespaceChars

HasMetachar(s) == \E i \in DOMAIN s : s[i] \in ShellMetachars

\* a string of whitespace only, the empty string included
Blank(s) == \A i \in DOMAIN s : s[i] \in WhitespaceChars

\* C12: validate_command rejects every string that holds a whitespace
\* character (space, tab, newline, carriage return, other) or one of the
\* shell metacharacters anywhere, and allow_run then adds nothing.
C12_CommandWhitespaceAndMetachars ==
  (call.kind = "allow_run" /\ (HasWhitespace(call.input) \/ HasMetachar(call.input))) =>
    /\ ~call.out.ok
    /\ call.after = call.before

\* the system-directory prefixes the specification lists
ListedPathPrefixes ==
  { <<"/","e","t","c","/">>, <<"/","r","o","o","t","/">>,
    <<"/","s","y","s","/">>, <<"/","p","r","o","c","/">>,
    <<"/","d","e","v","/">>, <<"/","t","m","p","/">>,
    <<"/","b","o","o","t","/">>, <<"/","u","s","r","/","b","i","n","/">>,
    <<"/","u","s","r","/","s","b","i","n","/">>, <<"/","b","i","n","/">>,
    <<"/","s","b","i","n","/">>,
    <<"C",":","\\","W","i","n","d","o","w","s","\\">>,
    <<"C",":","\\","P","r","o","g","r","a","m"," ","F","i","l","e","s","\\">>,
    <<"C",":","\\","U","s","e","r","s","\\">>,
    <<"/","S","y","s","t","e","m","/">>,
    <<"/","L","i","b","r","a","r","y","/">>,
    <<"/","A","p","p","l","i","c","a","t","i","o","n","s","/">> }

UnderPrefix(s, prefixes) == \E pre \in prefixes : StartsWith(s, pre)

\* C13: validate_file_path rejects every blank string, every string that
\* holds ".." anywhere and every string that starts with a listed
\* system-directory prefix; allow_read and allow_write never add such a string.
C13_PathRejections ==
  (/\ PathCall
   /\ \/ Blank(call.input)
      \/ \E i \in 1..(Len(call.input) - 1) :
            call.input[i] = "." /\ call.input[i + 1] = "."
      \/ UnderPrefix(call.input, ListedPathPrefixes)) =>
    /\ ~call.out.ok
    /\ call.after = call.before

\* a path with a traversal in the middle was handed to allow_write and dropped
C13_Witness ==
  /\ call.kind = "allow_write"
  /\ call.input = <<"/","w","/","a","/",".",".","/","b">>
  /\ ~call.out.ok
  /\ call.after = call.before

\* a non-blank path without ".." and outside the given prefixes is accepted
\* unchanged, and the builder call adds exactly that string
AcceptedUnchangedOutside(prefixes) ==
  (/\ PathCall
   /\ ~Blank(call.input)
   /\ ~Contains(call.input, <<".", ".">>)
   /\ ~UnderPrefix(call.input, prefixes)) =>
    /\ call.out = Ok(call.input)
    /\ call.input \in Range(PathList(call.after))

\* C14 as stated: validate_file_path accepts, unchanged, every non-blank
\* string without ".." that starts with none of the listed prefixes.
C14_PathAcceptedUnchanged == AcceptedUnchangedOutside(ListedPathPrefixes)

\* C14 as amended: the same, for strings that start neither with a listed
\* prefix nor with C:\temp\, which the code denylists as well.
C14_PathAcceptedUnchangedAmended ==
  AcceptedUnchangedOutside(
    ListedPathPrefixes \cup { <<"C",":","\\","t","e","m","p","\\">> })

\* a denylisted directory named without its trailing slash is accepted as is
C14_Witness ==
  /\ call.kind = "allow_read"
  /\ call.input = <<"/","e","t","c">>
  /\ call.out = Ok(<<"/","e","t","c">>)
  /\ <<"/","e","t","c">> \in Range(call.after.file_read)

\* the host a manifest entry spells: trimmed and lower-cased
Normalized(s) == ToLowercase(Trim(s))

\* the broad-access literals
BroadAccessHosts ==
  { <<"0",".","0",".","0",".","0">>, <<":",":">>,
    <<"l","o","c","a","l","h","o","s","t">>,
    <<"1","2","7",".","0",".","0",".","1">>, <<":",":","1">> }

\* the listed cloud-metadata hosts
CloudMetadataHosts ==
  { <<"1","6","9",".","2","5","4",".","1","6","9",".","2","5","4">>,
    <<"1","6","9",".","2","5","4",".","1","6","9",".","2","5","4",".","n","i","p",".","i","o">>,
    <<"1","6","9",".","2","5","4",".","1","6","9",".","2","5","4",".","x","i","p",".","i","o">>,
    <<"1","6","9","-","2","5","4","-","1","6","9","-","2","5","4",".","n","i","p",".","i","o">>,
    <<"1","0","0",".","1","0","0",".","1","0","0",".","2","0","0">>,
    <<"m","e","t","a","d","a","t","a",".","g","o","o","g","l","e",".","i","n","t","e","r","n","a","l">>,
    <<"m","e","t","a","d","a","t","a",".","a","z","u","r","e",".","c","o","m">>,
    <<"i","n","s","t","a","n","c","e","-","d","a","t","a",".","e","c","2",".","i","n","t","e","r","n","a","l">>,
    <<"m","e","t","a","d","a","t","a">>,
    <<"m","e","t","a","d","a","t","a",".","l","o","c","a","l">> }

\* the denylisted executable names
DenylistedCommands ==
  { <<"r","m">>, <<"d","e","l">>, <<"f","o","r","m","a","t">>,
    <<"f","d","i","s","k">>, <<"d","d">>, <<"m","k","f","s">>,
    <<"s","u","d","o">>, <<"s","u">>, <<"c","h","m","o","d">>,
    <<"c","h","o","w","n">>, <<"p","a","s","s","w","d">>,
    <<"c","u","r","l">>, <<"w","g","e","t">>, <<"n","c">>,
    <<"n","e","t","c","a","t">>, <<"t","e","l","n","e","t">>,
    <<"s","s","h">>, <<"s","c","p">>, <<"r","s","y","n","c">>,
    <<"f","t","p">>, <<"e","v","a","l">>, <<"e","x","e","c">> }

\* the second dot-separated label of h is a number in 16..31
SecondOctetPrivate(h) ==
  LET parts == Split(h, ".") IN
  /\ Len(parts) >= 2
  /\ ParseU8(parts[2]) # None
  /\ ParseU8(parts[2])[1] \in 16..31

\* h, a normalized host, lies in a private range: 192.168.x.x, 10.x.x.x or
\* 172.16-31.x.x
InPrivateRange(h) ==
  \/ StartsWith(h, <<"1","9","2",".","1","6","8",".">>)
  \/ StartsWith(h, <<"1","0",".">>)
  \/ StartsWith(h, <<"1","7","2",".">>) /\ SecondOctetPrivate(h)

\* h, a normalized host, is in one of the rejection classes
InRejectionClass(h) ==
  \/ h = <<>>
  \/ \E i \in DOMAIN h : h[i] = "*"
  \/ h \in BroadAccessHosts
  \/ h \in CloudMetadataHosts
  \/ InPrivateRange(h)

\* C15: validate_network_domain rejects the empty host, wildcard hosts, the
\* broad-access literals, the listed metadata hosts and the private ranges,
\* in every letter case and with any leading or trailing whitespace;
\* allow_network never adds such a host.
C15_HostRejections ==
  (call.kind = "allow_network" /\ InRejectionClass(Normalized(call.input))) =>
    /\ ~call.out.ok
    /\ call.after = call.before

\* an upper-case, whitespace-padded spelling of a metadata host was dropped
C15_Witness ==
  /\ call.kind = "allow_network"
  /\ call.input = HostVariant(<<"m","e","t","a","d","a","t","a",".","l","o","c","a","l">>, "both")
  /\ call.input # <<"m","e","t","a","d","a","t","a",".","l","o","c","a","l">>
  /\ ~call.out.ok
  /\ call.after = call.before

\* C16: validate_network_domain accepts every host outside all rejection
\* classes, hosts under 172. with a second octet outside 16..31 included, and
\* the accepted value, which allow_network adds, is the trimmed lower-cased input.
C16_HostAcceptedNormalized ==
  (call.kind = "allow_network" /\ ~InRejectionClass(Normalized(call.input))) =>
    /\ call.out = Ok(Normalized(call.input))
    /\ Normalized(call.input) \in Range(call.after.network)

\* C17: validate_command rejects each denylisted executable name, and
\* accepts unchanged every other non-blank token free of whitespace and of
\* shell metacharacters, which allow_run then adds.
C17_CommandDenylistExact ==
  call.kind = "allow_run" =>
    /\ call.input \in DenylistedCommands =>
         ~call.out.ok /\ call.after = call.before
    /\ (/\ call.input \notin DenylistedCommands
        /\ call.input # <<>>
        /\ ~HasWhitespace(call.input)
        /\ ~HasMetachar(call.input)) =>
         /\ call.out = Ok(call.input)
         /\ call.input \in Range(call.after.run_commands)

\* a name that only begins like a denylisted one has been accepted and added
C17_Witness ==
  /\ call.kind = "allow_run"
  /\ call.input = <<"r","m","x">>
  /\ call.out = Ok(<<"r","m","x">>)
  /\ call.after.run_commands = << <<"r","m","x">> >>

\* the arguments of args that begin with the given flag
FlagArgs(args, flag) == {i \in DOMAIN args : args[i].pre = flag}

\* a list flag is emitted once, with a non-empty value, when the list is
\* non-empty, and not at all when it is empty
ListFlagEmitted(args, flag, list) ==
  /\ list # <<>> => Cardinality(FlagArgs(args, flag)) = 1
  /\ list = <<>> => FlagArgs(args, flag) = {}
  /\ \A i \in FlagArgs(args, flag) : args[i].val # <<>>

\* C18: to_deno_args emits --allow-read, --allow-write, --allow-net and
\* --allow-run each exactly when its list is non-empty, never with an empty
\* value, and --allow-env exactly when env_access is true.
C18_FlagEmission ==
  call.kind = "to_deno_args" =>
    /\ ListFlagEmitted(call.args, "--allow-read=", call.before.file_read)
    /\ ListFlagEmitted(call.args, "--allow-write=", call.before.file_write)
    /\ ListFlagEmitted(call.args, "--allow-net=", call.before.network)
    /\ ListFlagEmitted(call.args, "--allow-run=", call.before.run_commands)
    /\ (FlagArgs(call.args, "--allow-env") # {}) = call.before.env_access

\* the minimal policy: no network and no run flag at all
C18_Witness ==
  /\ call.kind = "to_deno_args"
  /\ call.before.network = <<>>
  /\ call.before.run_commands = <<>>
  /\ call.before.file_read # <<>>
  /\ ~call.before.env_access
  /\ call.args = << Arg("--allow-read=", <<"/","w">>) >>

\* the policy p with the entry appended to the list of the builder call
AppendedTo(p, kind, entry) ==
  CASE kind = "allow_read"    -> [p EXCEPT !.file_read = Append(@, entry)]
    [] kind = "allow_write"   -> [p EXCEPT !.file_write = Append(@, entry)]
    [] kind = "allow_network" -> [p EXCEPT !.network = Append(@, entry)]
    [] kind = "allow_run"     -> [p EXCEPT !.run_commands = Append(@, entry)]

\* the list of the policy the builder call works on
OwnList(p, kind) ==
  CASE kind = "allow_read"    -> p.file_read
    [] kind = "allow_write"   -> p.file_write
    [] kind = "allow_network" -> p.network
    [] kind = "allow_run"     -> p.run_commands

\* C29: an allow_read, allow_write, allow_network or allow_run call whose
\* argument is rejected, or whose accepted form is already in the list,
\* leaves the whole policy as it was; otherwise the accepted form is appended
\* to the call's own list and nothing else of the policy changes.
C29_AllowFrame ==
  call.kind \in {"allow_read", "allow_write", "allow_network", "allow_run"} =>
    IF ~call.out.ok \/ call.out.val \in Range(OwnList(call.before, call.kind))
    THEN call.after = call.before
    ELSE call.after = AppendedTo(call.before, call.kind, call.out.val)

\* a host written in capitals whose accepted form the policy already holds:
\* the call leaves the policy as it was
C29_Witness ==
  /\ call.kind = "allow_network"
  /\ call.input = <<"A",".","I","O">>
  /\ call.out.ok
  /\ call.before.network = << <<"a",".","i","o">> >>
  /\ call.after = call.before

PathSeparators == {"/", "\\"}

\* the path is a denylisted directory written without its trailing
\* separator, or a directory above one
NamesDenylistedDirectory(path) ==
  \E i \in DOMAIN dangerous_paths :
    LET d == dangerous_paths[i] IN
    /\ path # <<>>
    /\ Len(path) < Len(d)
    /\ StartsWith(d, path)
    /\ (d[Len(path) + 1] \in PathSeparators \/ path[Len(path)] \in PathSeparators)

\* C30: validate_file_path accepts no path that names a denylisted directory
\* or a directory above one, and allow_read / allow_write leave no such path
\* in the policy.
C30_DenylistedDirsNotGrantable ==
  call.kind \in {"allow_read", "allow_write"} =>
    /\ call.out.ok => ~NamesDenylistedDirectory(call.out.val)
    /\ \A e \in Range(PathList(call.after)) : ~NamesDenylistedDirectory(e)
----------------------------------------------------------------------------
(* Claims about the levels of the permission compiler *)

\* a command with grants that no declaration of Declarations makes
OtherCommand ==
  PluginCommand(Some(SecurityPermissions(<<<<"/","w","/","x">>>>, <<<<"o","u","t">>>>,
                       Some(FALSE), <<<<"c",".","i","o">>>>, <<<<"t","s","c">>>>)))

\* the manifest m with the commands other than command_name replaced by one
\* command named sibling_name
ReplaceSiblings(m, command_name, sibling_name, sibling) ==
  [m EXCEPT !.commands =
     [n \in (DOMAIN m.commands \cap {command_name}) \cup {sibling_name} |->
        IF n = command_name THEN m.commands[n] ELSE sibling]]

\* the manifest m with the commands other than command_name removed
WithoutSiblings(m, command_name) ==
  [m EXCEPT !.commands = [n \in DOMAIN m.commands \cap {command_name} |-> m.commands[n]]]

\* the policy of the plugin level: the safe defaults and the plugin-level
\* declaration, no command looked at
PluginLevelPolicy(project_root, m) ==
  IF m.permissions # None
  THEN apply_security_permissions(safe_defaults(project_root), m.permissions[1])
  ELSE safe_defaults(project_root)

\* the invoked command is not in the manifest, or declares no permissions
NoCommandPermissions(m, command_name) ==
  \/ command_name \notin DOMAIN m.commands
  \/ m.commands[command_name].permissions = None

\* C21: the policy compiled for a command is the policy compiled from the
\* same manifest with its other commands removed, and the one compiled
\* with them replaced by a command with other grants; when the command is not in the manifest or declares no
\* permissions the policy is the one of the plugin level alone.
C21_SiblingIsolation ==
  phase = "built" =>
    LET m == buildIn.plugin_manifest[1]
        c == buildIn.command_name
        root == buildIn.project_root
    IN  /\ perms = build_plugin_permissions(root, WithoutSiblings(m, c), c)
        /\ perms = build_plugin_permissions(root, ReplaceSiblings(m, c, "lint", OtherCommand), c)
        /\ NoCommandPermissions(m, c) => perms = PluginLevelPolicy(root, m)

\* the manifest has a sibling command with grants of its own, the invoked
\* command declares nothing, and none of the sibling's grants is compiled
C21_Witness ==
  /\ phase = "built"
  /\ buildIn.command_name = "deploy"
  /\ "test" \in DOMAIN buildIn.plugin_manifest[1].commands
  /\ buildIn.plugin_manifest[1].commands["test"] = SiblingCommand
  /\ buildIn.plugin_manifest[1].commands["deploy"].permissions = None
  /\ buildIn.plugin_manifest[1].permissions # None
  /\ PluginDecl.run_commands = << <<"g","i","t">> >>
  /\ perms.run_commands = << <<"g","i","t">> >>
  /\ perms.network = <<>>

\* C22: when neither the plugin level nor the invoked command declares
\* permissions the policy is file_read = {project root, .makeitso},
\* file_write = {project root}, env_access = true, network = {} and
\* run_commands = {}; every network host and every run command of a compiled
\* policy is the accepted form of a declared entry.
C22_SafeDefaults ==
  phase = "built" =>
    /\ (/\ buildIn.plugin_manifest[1].permissions = None
        /\ NoCommandPermissions(buildIn.plugin_manifest[1], buildIn.command_name))
       => /\ Range(perms.file_read) = {buildIn.project_root, MAKEITSO_DIR}
          /\ Len(perms.file_read) = 2
          /\ Range(perms.file_write) = {buildIn.project_root}
          /\ Len(perms.file_write) = 1
          /\ perms.env_access = TRUE
          /\ perms.network = <<>>
          /\ perms.run_commands = <<>>
    /\ \A host \in Range(perms.network) :
         \E d \in Range(PluginDecl.network) \cup Range(CommandDecl.network) :
           validate_network_domain(d).ok /\ validate_network_domain(d).val = host
    /\ \A command \in Range(perms.run_commands) :
         \E d \in Range(PluginDecl.run_commands) \cup Range(CommandDecl.run_commands) :
           validate_command(d).ok /\ validate_command(d).val = command

\* a manifest without plugin-level permissions whose invoked command is not
\* declared, next to a command with grants: the policy is the safe defaults
C22_Witness ==
  /\ phase = "built"
  /\ buildIn.plugin_manifest[1].permissions = None
  /\ buildIn.command_name = "missing"
  /\ "test" \in DOMAIN buildIn.plugin_manifest[1].commands
  /\ perms.file_read = <<buildIn.project_root, MAKEITSO_DIR>>
  /\ perms.file_write = <<buildIn.project_root>>
  /\ perms.network = <<>>

\* the list in reverse order
Reversed(list) == [i \in DOMAIN list |-> list[Len(list) + 1 - i]]

\* the list with its first entry moved to the end
Rotated(list) == IF list = <<>> THEN list ELSE Tail(list) \o <<Head(list)>>

\* the list with every entry repeated after the last one
Repeated(list) == list \o list

\* the declaration with the lists rewritten by f
MapLists(d, f(_)) ==
  [d EXCEPT !.file_read = f(@), !.file_write = f(@), !.network = f(@),
            !.run_commands = f(@)]

\* the manifest with the lists of the plugin-level declaration and of every
\* command's declaration rewritten by f
MapManifest(m, f(_)) ==
  [permissions |-> IF m.permissions # None THEN Some(MapLists(m.permissions[1], f))
                   ELSE None,
   commands |-> [n \in DOMAIN m.commands |->
                   IF m.commands[n].permissions # None
                   THEN PluginCommand(Some(MapLists(m.commands[n].permissions[1], f)))
                   ELSE m.commands[n]]]

\* the same entries in every list and the same env_access
SameEntrySets(p, q) ==
  /\ Range(p.file_read) = Range(q.file_read)
  /\ Range(p.file_write) = Range(q.file_write)
  /\ Range(p.network) = Range(q.network)
  /\ Range(p.run_commands) = Range(q.run_commands)
  /\ p.env_access = q.env_access

\* C26: the entry sets and env_access of the compiled policy do not change
\* when the declared lists are reversed, rotated (the two generate every
\* permutation) or written twice over.
C26_DependsOnDeclaredSets ==
  phase = "built" =>
    LET m == buildIn.plugin_manifest[1]
        c == buildIn.command_name
        root == buildIn.project_root
    IN  /\ SameEntrySets(perms, build_plugin_permissions(root, MapManifest(m, Reversed), c))
        /\ SameEntrySets(perms, build_plugin_permissions(root, MapManifest(m, Rotated), c))
        /\ SameEntrySets(perms, build_plugin_permissions(root, MapManifest(m, Repeated), c))

\* two commands are declared at plugin level; in the other order they are
\* compiled into another list with the same entries
C26_Witness ==
  /\ phase = "built"
  /\ PluginDecl.run_commands = << <<"g","i","t">>, <<"n","p","m">> >>
  /\ perms.run_commands = << <<"g","i","t">>, <<"n","p","m">> >>
  /\ build_plugin_permissions(buildIn.project_root,
                              MapManifest(buildIn.plugin_manifest[1], Reversed),
                              buildIn.command_name).run_commands
       = << <<"n","p","m">>, <<"g","i","t">> >>

\* the comma-separated elements of the value of the flag, none when the flag
\* is not emitted
FlagElements(args, flag) ==
  IF FlagArgs(args, flag) = {} THEN <<>>
  ELSE Split(args[CHOOSE i \in FlagArgs(args, flag) : TRUE].val, ",")

\* the flag carries one element for each entry of the list, each accepted by
\* the validator
ElementsValidated(args, flag, list, validate(_)) ==
  /\ Len(FlagElements(args, flag)) = Len(list)
  /\ AllAccepted(FlagElements(args, flag), validate)

\* C27: in the launch arguments of every compiled policy each comma-separated
\* element of the value of --allow-read, --allow-write, --allow-net and
\* --allow-run is accepted by the validator of its list, and each flag has as
\* many elements as its list has entries.
C27_NoSmugglingThroughJoin ==
  phase = "built" =>
    /\ ElementsValidated(to_deno_args(perms), "--allow-read=", perms.file_read,
                         validate_file_path)
    /\ ElementsValidated(to_deno_args(perms), "--allow-write=", perms.file_write,
                         validate_file_path)
    /\ ElementsValidated(to_deno_args(perms), "--allow-net=", perms.network,
                         validate_network_domain)
    /\ ElementsValidated(to_deno_args(perms), "--allow-run=", perms.run_commands,
                         validate_command)
----------------------------------------------------------------------------
(* Claims about the execution context *)

\* the manifest without any permission section
WithoutPermissions(m) ==
  [m EXCEPT !.permissions = None,
            !.commands = [c \in DOMAIN m.commands |->
                            [m.commands[c] EXCEPT !.permissions = None]]]

\* the two manifests differ, and in their permission sections only
DifferOnlyInPermissions(m1, m2) ==
  m1 # m2 /\ WithoutPermissions(m1) = WithoutPermissions(m2)

\* the context's manifest data lists the command names and nothing else of
\* the commands, and no permissions field
NamesOnly(c, m) ==
  /\ DOMAIN c.manifest = {"plugin", "commands", "deno_dependencies", "registry"}
  /\ Len(c.manifest.commands) = Cardinality(DOMAIN m.commands)
  /\ Range(c.manifest.commands) = DOMAIN m.commands

\* the context with its two HashMap-ordered listings taken as sets
Unordered(c) ==
  [c EXCEPT !.manifest.commands = Range(@), !.plugin_args = Range(@)]

\* C20 as stated: the context holds only the names of the manifest's commands
\* and no permissions, and two manifests that differ only in permissions
\* give identical serialized contexts.
C20_PermissionsNeverReachPlugin ==
  /\ ctx.pc \in {"one", "two"} => NamesOnly(ctx.context1[1], ctx.manifest1[1])
  /\ ctx.pc = "two" => NamesOnly(ctx.context2[1], ctx.manifest2[1])
  /\ (ctx.pc = "two" /\ DifferOnlyInPermissions(ctx.manifest1[1], ctx.manifest2[1])) =>
       ctx.context1[1] = ctx.context2[1]

\* C20 as amended: the same, the serialized contexts being identical up to
\* the order in which the command names and the plugin arguments are listed.
C20_PermissionsNeverReachPluginAmended ==
  /\ ctx.pc \in {"one", "two"} => NamesOnly(ctx.context1[1], ctx.manifest1[1])
  /\ ctx.pc = "two" => NamesOnly(ctx.context2[1], ctx.manifest2[1])
  /\ (ctx.pc = "two" /\ DifferOnlyInPermissions(ctx.manifest1[1], ctx.manifest2[1])) =>
       Unordered(ctx.context1[1]) = Unordered(ctx.context2[1])

\* two manifests with different plugin-level and command-level permissions
\* and two commands were serialized
C20_Witness ==
  /\ ctx.pc = "two"
  /\ DifferOnlyInPermissions(ctx.manifest1[1], ctx.manifest2[1])
  /\ ctx.manifest1[1].permissions # ctx.manifest2[1].permissions
  /\ ctx.manifest1[1].commands["deploy"].permissions
       # ctx.manifest2[1].commands["deploy"].permissions
  /\ Len(ctx.context1[1].manifest.commands) = 2
  /\ ctx.context1[1].manifest.commands # ctx.context2[1].manifest.commands
  /\ Unordered(ctx.context1[1]) = Unordered(ctx.context2[1])
=============================================================================
